---------------------------- MODULE Spec2Model ----------------------------
(***************************************************************************)
(* State-machine model of the r-row 2D engine: the input layer (Keyboard,  *)
(* Mouse, Touch and the Clickable widget built on them) and the frame      *)
(* cycle (GameLoop with its subscriber lists, GameCanvas, SceneManager and *)
(* the objects that subscribe themselves).  Every handler or method of the *)
(* TypeScript source is one operator over the variables of its object; the *)
(* "...Step" actions add the history variables the properties read and the *)
(* frame condition.  _loop is one step per callback it invokes, so that a  *)
(* callback can raise an error or call the engine.                         *)
(***************************************************************************)
EXTENDS Integers, Sequences, FiniteSets, TLC

(***************************************************************************)
(* Bounds of the model.                                                    *)
(***************************************************************************)
\* Raw events recorded for one key between two reconciliations.
MaxEvents == 2
\* Largest deltaTime of one frame, and the session time after which no
\* further Touch._update is taken, both in ticks of 1/16 time unit.
MaxDt == 2
MaxTimer == 6

(***************************************************************************)
(* KeyState (enums/KeyState) and the identifiers used by the model.        *)
(***************************************************************************)
Absent == "none"
\* No object: the value of a reference that was never assigned.
NoObject == <<>>
KeyState == {"up", "down", "just_up", "just_down"}
Keys == {"KeyA", "KeyB"}

\* MouseButton (enums/MouseButton): the two buttons the model presses.
Left == 0
Right == 2
Buttons == {Left, Right}

\* TouchState (enums/TouchState).
TouchState == {"started", "moved", "ended", "cancelled"}

\* ClickableState (enums/ClickableState).
ClickableState == {"released", "hovered", "pressed", "clicked", "disabled"}

(***************************************************************************)
(* Pointer coordinates.  A position is a pair <<x, y>> of fractions in     *)
(* lowest terms, <<numerator, denominator>> with a positive denominator,   *)
(* so that the division by the canvas scale is exact whatever the scale.   *)
(***************************************************************************)
RECURSIVE Gcd(_, _)
Gcd(a, b) == IF b = 0 THEN a ELSE Gcd(b, a % b)
\* The number n / d, for d > 0.
Fraction(n, d) ==
  LET g == Gcd(IF n < 0 THEN -n ELSE n, d)
  IN <<n \div g, d \div g>>
\* clientX/clientY (pageX/pageY) of the pointer events, in CSS pixels.
PagePoints == {<<-1, 1>>, <<1, 1>>, <<2, 2>>, <<5, 4>>}
\* GameCanvas.position: the top-left corner of the canvas on the page.
CanvasOffsets == {<<0, 0>>, <<1, 0>>}
\* options.size: the logical resolution a game gives to GameCanvas.init.
BaseSize == <<3, 2>>
\* new Point(0, 0), the position of a pointer no event has moved.
Origin == <<Fraction(0, 1), Fraction(0, 1)>>
\* The hit region of the one Clickable of the model (position, size).
Area == [position |-> <<1, 1>>, size |-> <<1, 1>>]

VARIABLES
  kTemp,     \* Keyboard._tempState : key -> last raw edge, Absent when not in the map
  kState,    \* Keyboard._state     : key -> KeyState, Absent when not in the map
  kSeen,     \* history: keys for which a keydown or keyup event has arrived
  kEvts,     \* history: raw events of each key since the last Keyboard._update
  kStart,    \* history: Keyboard._state as the last _update left it
  kPre,      \* history: kStart as it was when the last _update began, that is
             \*          the state polled during the frame before the current one
  kFolded,   \* history: kEvts as it was when the last _update began
  mTemp,     \* Mouse._tempState : button -> last raw edge, Absent when not in the map
  mState,    \* Mouse._state     : button -> KeyState, Absent when not in the map
  mPos,      \* Mouse._position
  mSeen,     \* history: buttons for which a mousedown or mouseup event has arrived
  mNew,      \* history: last raw event of each button since the last Mouse._update
  mPre,      \* history: Mouse._state as it was when the last _update began
  mFolded,   \* history: mNew as it was when the last _update began
  touchScreen, \* Touch.isTouchScreen: whether the device is touch-capable
  clickDelay, \* Touch._clickDelay, as the fraction <<numerator, denominator>>
  tState,    \* Touch._state, Absent when undefined
  tTemp,     \* Touch._tempState, Absent when undefined
  tOld,      \* Touch._oldState, Absent when undefined
  tTimer,    \* Touch._clickTimer, in ticks of 1/16 time unit
  tIsDown,   \* Touch._isDown
  tIsUp,     \* Touch._isUp
  tIsClicked, \* Touch._isClicked
  tPos,      \* Touch._position
  cPhase,    \* history: "down" from a touchstart to the touchend of the same
             \*          contact, "ended" after it, "none" otherwise
  cPure,     \* history: no touchmove arrived since the touchstart of the contact
  cDur,      \* history: deltaTime summed by the reconciliations while the contact is down
  cAfter,    \* history: reconciliations since the touchend of the contact (0, 1, 2 = more)
  cClicks,   \* history: reconciliations since the touchstart that left isClicked true
             \* (a reconciliation is an _update call on a touch-capable device)
  tNew,      \* history: the last raw touch event since the last reconciliation
  tFolded,   \* history: tNew as it was when the last reconciliation began
  tRaw,      \* history: the canvas coordinates of the last touchstart or touchmove
  tBase,     \* history: GameCanvas.baseSize as that event read it
             \*          before the clamp, <<>> before the first one
  tRead,     \* history: the _tempState that the last reconciliation found
  clState,   \* Clickable._state
  clIn,      \* history: the last call on the Clickable: its name, its argument,
             \*          whether the state was Disabled when it was made and, for
             \*          update, what the pointers showed at that moment, for
             \*          disable and enable, the state that the call replaced
  updateSubscribers,     \* GameLoop._updateSubscribers
  preRenderSubscribers,  \* GameLoop._preRenderSubscribers
  postRenderSubscribers, \* GameLoop._postRenderSubscribers
  loopDeltaTime, \* GameLoop._deltaTime
  lastTime,    \* GameLoop._lastTime
  pending,     \* number of _loop callbacks handed to requestAnimationFrame and not yet run
  pc,          \* position of the running _loop call, "idle" between two calls
  forEachK,    \* index k of the forEach in progress (0-based, as in the source)
  forEachLen,  \* length of the list read when the forEach in progress began
  frameScene,  \* the const currentScene destructured at the top of _loop
  inCall,      \* a callback invoked by _loop is executing: the engine may be re-entered
  isInitialized, \* GameCanvas._isInitialized
  canvasBaseSize, \* GameCanvas._baseSize
  canvasScale, \* GameCanvas._scale, as the fraction <<numerator, denominator>>
  fullscreenElement, \* document.fullscreenElement is set
  fullscreenRequests, \* the requests the browser has not yet answered
  canvasCall,  \* history: the last call on the GameCanvas: its name, whether init
               \*          had been called when it ended, its outcome, the value returned
  currentScene,    \* SceneManager._currentScene, NoScene when undefined
  scenesContainer, \* SceneManager._scenesContainer : name -> scene, NoScene when not in the map
  instances,   \* the input singletons constructed so far
  binds,       \* number of function objects made by Function.prototype.bind so far
  widgets,      \* the InputField and SpriteSheet objects constructed and not torn down
  field,       \* the InputField whose fields the model follows: the first one
               \*          constructed, NoObject before
  sheet,       \* the SpriteSheet whose fields the model follows: the first one
               \*          constructed, NoObject before
  animations,  \* SpriteSheet._animations of one sprite sheet : name -> animation,
               \*          NoAnimation when not in the map
  frameLog,    \* history: the calls made by the _loop call that is running or was
               \*          ended by an error, in order; empty after a _loop call that returned
  frameSubs,   \* history: _updateSubscribers as it was when that _loop call began
  frameTouched, \* history: _updateSubscribers was changed during that _loop call
  frameThrew,  \* history: a _loop call was ended by an error
  frameGone,   \* history: the functions unsubscribeFromUpdate removed during that _loop
               \*          call, up to its clearScreen
  drawSubs,    \* history: the render list of the forEach in progress as it was
               \*          when that forEach began
  drawTouched, \* history: that render list was changed since
  goneSubs,    \* history: the functions the torn down objects had subscribed
  sceneCalls,  \* history: the load and unload calls of the last setScene, in order
  loadedBefore, \* history: the scenes loaded and not unloaded when the last setScene began
  sceneError,  \* history: the error that ended the last setScene call, NoError
               \*          when it returned
  registered,  \* history: the last addScenes or addAnimation call: its name, the
               \*          entries it was given, the registry before it, its outcome
  twoPhase,    \* the GameLoop without render lists: its fields, the position of
               \*          its running _loop call and, as history, the calls that made
  isSubmittedByEnterKey, \* InputField._isSubmittedByEnterKey
  isOldSubmitted, \* InputField._isOldSubmitted
  fieldValue,  \* InputField._value
  inputValue,  \* InputField._input.value, the text in the <input> element
  inputFocused, \* document.activeElement === InputField._input
  enterCount,  \* history: the Enter key events that found the field focused and
               \*          not empty since the last _update
  fieldFrames, \* history: for the last two frames, the number of such events
               \*          before the frame and isSubmittedByEnterKey as the scene's
               \*          update of the frame read it
  animFrames,  \* SpriteSheetAnimation._frames
  animLoop,    \* SpriteSheetAnimation._loop
  animSpeed,   \* SpriteSheetAnimation._speed, as the fraction <<numerator, denominator>>
  animIsEnded, \* SpriteSheetAnimation._isEnded
  animTimer,   \* SpriteSheetAnimation._timer
  animCurrentFrame, \* SpriteSheetAnimation._currentFrame
  sheetPlaying, \* SpriteSheet._currentAnimation is that animation (undefined otherwise)
  sheetCurrentFrame, \* SpriteSheet._currentFrame
  sheetTimerAnimation, \* SpriteSheet._timerAnimation
  sheetIsAnimationEnded, \* SpriteSheet._isAnimationEnded
  animCall     \* history: the last call on the animation: its name, its deltaTime,
               \*          _currentFrame, _timer and _isEnded when it was made, and
               \*          whether currentFrame has been assigned since construction

kbdVars == <<kTemp, kState, kSeen>>
kbdHist == <<kEvts, kStart, kPre, kFolded>>
mouseVars == <<mTemp, mState, mPos, mSeen>>
mouseHist == <<mNew, mPre, mFolded>>

touchVars == <<touchScreen, clickDelay, tState, tTemp, tOld, tTimer, tIsDown, tIsUp, tIsClicked, tPos>>
touchHist == <<cPhase, cPure, cDur, cAfter, cClicks, tNew, tFolded, tRaw, tBase, tRead>>

clickVars == <<clState, clIn>>

loopVars == <<updateSubscribers, preRenderSubscribers, postRenderSubscribers,
              loopDeltaTime, lastTime, pending, pc, forEachK, forEachLen, frameScene, inCall>>
loopHist == <<frameLog, frameSubs, frameTouched, frameThrew, frameGone, drawSubs, drawTouched>>
canvasState ==
  <<isInitialized, canvasBaseSize, canvasScale, fullscreenElement, fullscreenRequests>>
canvasVars == <<canvasState, canvasCall>>
sceneVars == <<currentScene, scenesContainer>>
sceneHist == <<sceneCalls, loadedBefore, registered, sceneError>>
objectVars == <<instances, binds, widgets, field, sheet, goneSubs, animations>>

\* The components that stand apart from the input devices and the engine.
fieldRest == <<isSubmittedByEnterKey, isOldSubmitted, fieldValue, inputValue>>
fieldVars == <<fieldRest, inputFocused>>
fieldHist == <<enterCount, fieldFrames>>
animParams == <<animFrames, animLoop, animSpeed>>
animVars == <<animParams, animIsEnded, animTimer, animCurrentFrame>>
sheetVars == <<sheetPlaying, sheetCurrentFrame, sheetTimerAnimation, sheetIsAnimationEnded>>
apartVars == <<twoPhase, fieldVars, fieldHist, animVars, sheetVars, animCall>>
deviceVars == <<kbdVars, kbdHist, mouseVars, mouseHist, touchVars, touchHist, clickVars>>
inputVars == <<deviceVars, apartVars>>
engineVars == <<loopVars, loopHist, canvasVars, sceneVars, sceneHist, objectVars>>

vars == <<inputVars, engineVars>>

notKeyboard == <<mouseVars, mouseHist, touchVars, touchHist, clickVars, apartVars, engineVars>>
notMouse == <<kbdVars, kbdHist, touchVars, touchHist, clickVars, apartVars, engineVars>>
notTouch == <<kbdVars, kbdHist, mouseVars, mouseHist, clickVars, apartVars, engineVars>>
notClickable == <<kbdVars, kbdHist, mouseVars, mouseHist, touchVars, touchHist, apartVars, engineVars>>

(***************************************************************************)
(* String.prototype.includes on a KeyState value, behind the optional      *)
(* chaining `?.`: an identifier missing from the map gives undefined.      *)
(***************************************************************************)
IncludesUp(s) == s \in {"up", "just_up"}
IncludesDown(s) == s \in {"down", "just_down"}

\* FoldEdge testing `old !== 'down'` in place of `old.includes('up')`.
FoldEdgeNoDecay(old, state) ==
  IF old # "down" /\ state = "down" THEN "just_down"
  ELSE IF old # "up" /\ state = "up" THEN "just_up"
  ELSE state

\* FoldEdge testing `old === 'up'` and `old === 'down'` in place of includes.
FoldEdgeExact(old, state) ==
  IF old = "up" /\ state = "down" THEN "just_down"
  ELSE IF old = "down" /\ state = "up" THEN "just_up"
  ELSE state

\* The body of the forEach callback of Keyboard._update and Mouse._update.
FoldEdge(old, state) ==
  IF IncludesUp(old) /\ state = "down" THEN "just_down"
  ELSE IF IncludesDown(old) /\ state = "up" THEN "just_up"
  ELSE state

(***************************************************************************)
(* Keyboard                                                                *)
(***************************************************************************)
\* isDown comparing with KeyState.Down in place of includes('down').
KeyboardIsDownExact(key) == kState[key] = "down"
KeyboardIsDown(key) == IF kState[key] = Absent THEN FALSE ELSE IncludesDown(kState[key])
\* isUp ending in `?? false`.
KeyboardIsUpNoDefault(key) == IF kState[key] = Absent THEN FALSE ELSE IncludesUp(kState[key])
KeyboardIsUp(key) == IF kState[key] = Absent THEN TRUE ELSE IncludesUp(kState[key])
KeyboardIsJustDown(key) == kState[key] = "just_down"
KeyboardIsJustUp(key) == kState[key] = "just_up"

\* Keyboard._update: every entry of _tempState is folded into _state.
KeyboardFold(st, tmp) ==
  [key \in Keys |-> IF tmp[key] = Absent THEN st[key] ELSE FoldEdge(st[key], tmp[key])]

KeyboardUpdate ==
  /\ kState' = KeyboardFold(kState, kTemp)
  /\ UNCHANGED <<kTemp, kSeen>>

\* _onKeyDown without the seeding of _state.
OnKeyDownNoSeed(key) ==
  /\ kTemp' = [kTemp EXCEPT ![key] = "down"]
  /\ kState' = kState
  /\ kSeen' = kSeen \cup {key}

\* _onKeyDown publishing the press at event time.
OnKeyDownEager(key) ==
  /\ kTemp' = [kTemp EXCEPT ![key] = "down"]
  /\ kState' = [kState EXCEPT ![key] = IF IncludesDown(@) THEN @ ELSE "just_down"]
  /\ kSeen' = kSeen \cup {key}

OnKeyDown(key) ==
  /\ kTemp' = [kTemp EXCEPT ![key] = "down"]
  /\ kState' = IF kState[key] = Absent THEN [kState EXCEPT ![key] = "up"] ELSE kState
  /\ kSeen' = kSeen \cup {key}

OnKeyUp(key) ==
  /\ kTemp' = [kTemp EXCEPT ![key] = "up"]
  /\ kState' = kState
  /\ kSeen' = kSeen \cup {key}

KeyboardInit ==
  /\ kTemp = [key \in Keys |-> Absent]
  /\ kState = [key \in Keys |-> Absent]
  /\ kSeen = {}
  /\ kEvts = [key \in Keys |-> <<>>]
  /\ kStart = [key \in Keys |-> Absent]
  /\ kPre = [key \in Keys |-> Absent]
  /\ kFolded = [key \in Keys |-> <<>>]

\* The keyboard steps with the history of each inter-frame interval.
KeyDownStep ==
  \E key \in Keys :
    /\ Len(kEvts[key]) < MaxEvents
    /\ OnKeyDown(key)
    /\ kEvts' = [kEvts EXCEPT ![key] = Append(@, "down")]
    /\ UNCHANGED <<kStart, kPre, kFolded, notKeyboard>>

KeyUpStep ==
  \E key \in Keys :
    /\ Len(kEvts[key]) < MaxEvents
    /\ OnKeyUp(key)
    /\ kEvts' = [kEvts EXCEPT ![key] = Append(@, "up")]
    /\ UNCHANGED <<kStart, kPre, kFolded, notKeyboard>>

KeyboardUpdateCall ==
  /\ KeyboardUpdate
  /\ kStart' = kState'
  /\ kPre' = kStart
  /\ kFolded' = kEvts
  /\ kEvts' = [key \in Keys |-> <<>>]
KeyboardUpdateStep == KeyboardUpdateCall /\ UNCHANGED notKeyboard

(***************************************************************************)
(* Mouse                                                                   *)
(***************************************************************************)
MouseIsDown(button) == IF mState[button] = Absent THEN FALSE ELSE IncludesDown(mState[button])
MouseIsUp(button) == IF mState[button] = Absent THEN TRUE ELSE IncludesUp(mState[button])
MouseIsJustDown(button) == mState[button] = "just_down"
MouseIsJustUp(button) == mState[button] = "just_up"

\* Mouse._update: the forEach runs over _state itself, and oldState is the
\* same Map object, so each entry is folded with its own current value;
\* _tempState is not read.
MouseFold(st, tmp) ==
  [button \in Buttons |->
     IF st[button] = Absent THEN st[button] ELSE FoldEdge(st[button], st[button])]

MouseUpdate ==
  /\ mState' = MouseFold(mState, mTemp)
  /\ UNCHANGED <<mTemp, mPos, mSeen>>

OnMouseDown(button) ==
  /\ mTemp' = [mTemp EXCEPT ![button] = "down"]
  /\ mState' = IF mState[button] = Absent THEN [mState EXCEPT ![button] = "up"] ELSE mState
  /\ mSeen' = mSeen \cup {button}
  /\ mPos' = mPos

OnMouseUp(button) ==
  /\ mTemp' = [mTemp EXCEPT ![button] = "up"]
  /\ mSeen' = mSeen \cup {button}
  /\ UNCHANGED <<mState, mPos>>

\* (client - canvasPosition) / GameCanvas.scale on both axes, offset being
\* the GameCanvas.position that the bounding rectangle gives at the event.
ToCanvas(page, offset) ==
  << Fraction((page[1] - offset[1]) * canvasScale[2], canvasScale[1]),
     Fraction((page[2] - offset[2]) * canvasScale[2], canvasScale[1]) >>

OnMouseMove(page, offset) ==
  /\ mPos' = ToCanvas(page, offset)
  /\ UNCHANGED <<mTemp, mState, mSeen>>

MouseInit ==
  /\ mTemp = [button \in Buttons |-> Absent]
  /\ mState = [button \in Buttons |-> Absent]
  /\ mPos = Origin
  /\ mSeen = {}
  /\ mNew = [button \in Buttons |-> Absent]
  /\ mPre = [button \in Buttons |-> Absent]
  /\ mFolded = [button \in Buttons |-> Absent]

\* The mouse steps with the history of each inter-frame interval.
MouseDownStep ==
  \E button \in Buttons :
    /\ OnMouseDown(button)
    /\ mNew' = [mNew EXCEPT ![button] = "down"]
    /\ UNCHANGED <<mPre, mFolded, notMouse>>

MouseUpStep ==
  \E button \in Buttons :
    /\ OnMouseUp(button)
    /\ mNew' = [mNew EXCEPT ![button] = "up"]
    /\ UNCHANGED <<mPre, mFolded, notMouse>>

MouseMoveStep ==
  \E page \in PagePoints, offset \in CanvasOffsets :
    /\ OnMouseMove(page, offset)
    /\ UNCHANGED <<mouseHist, notMouse>>

MouseUpdateCall ==
  /\ MouseUpdate
  /\ mPre' = mState
  /\ mFolded' = mNew
  /\ mNew' = [button \in Buttons |-> Absent]
MouseUpdateStep == MouseUpdateCall /\ UNCHANGED notMouse

(***************************************************************************)
(* Touch                                                                   *)
(***************************************************************************)
\* The delays a game may set, as fractions <<numerator, denominator>> of a
\* time unit: the 0.3 of the constructor and the 0.5 of the example.
DefaultClickDelay == <<3, 10>>
ClickDelays == {DefaultClickDelay, <<1, 2>>}

\* `_clickTimer <= _clickDelay` with the timer in ticks of 1/16 time unit:
\* timer / 16 <= numerator / denominator.
WithinClickDelay(timer) == timer * clickDelay[2] <= clickDelay[1] * 16

\* Touch.setClickDelay(delay).
SetClickDelay(delay) ==
  /\ clickDelay' = delay
  /\ UNCHANGED <<touchScreen, tState, tTemp, tOld, tTimer, tIsDown, tIsUp, tIsClicked, tPos>>

TouchIsStarted == tState = "started"
TouchIsMoved == tState = "moved"
TouchIsEnded == tState = "ended"
TouchIsCancelled == tState = "cancelled"

\* The clamp without its test of the lower edge.
ClampAbove(v, hi) == IF v[1] > hi * v[2] THEN Fraction(hi, 1) ELSE v
\* if (x < 0) x = 0; else if (x > baseSize.x) x = baseSize.x, x being the
\* fraction v and the edge hi a whole number.
Clamp(v, hi) ==
  IF v[1] < 0 THEN Fraction(0, 1)
  ELSE IF v[1] > hi * v[2] THEN Fraction(hi, 1) ELSE v

\* Touch._updatePositionFromTouchEvent: (page - gameCanvas.position) /
\* gameCanvas.scale, clamped into [0, gameCanvas.baseSize] on each axis.
TouchPosition(page, offset) ==
  << Clamp(ToCanvas(page, offset)[1], canvasBaseSize[1]),
     Clamp(ToCanvas(page, offset)[2], canvasBaseSize[2]) >>

OnTouchStart(page, offset) ==
  /\ tTemp' = "started"
  /\ tPos' = TouchPosition(page, offset)
  /\ tIsDown' = TRUE
  /\ tIsUp' = FALSE
  /\ UNCHANGED <<touchScreen, clickDelay, tState, tOld, tTimer, tIsClicked>>

OnTouchEnd ==
  /\ tTemp' = "ended"
  /\ tIsDown' = FALSE
  /\ tIsUp' = TRUE
  /\ UNCHANGED <<touchScreen, clickDelay, tState, tOld, tTimer, tIsClicked, tPos>>

OnTouchMove(page, offset) ==
  /\ tTemp' = "moved"
  /\ tPos' = TouchPosition(page, offset)
  /\ tIsDown' = TRUE
  /\ tIsUp' = FALSE
  /\ UNCHANGED <<touchScreen, clickDelay, tState, tOld, tTimer, tIsClicked>>

\* _onTouchCancel leaving the two flags as they are.
OnTouchCancelNoFlags ==
  /\ tTemp' = "cancelled"
  /\ UNCHANGED <<touchScreen, clickDelay, tState, tOld, tTimer, tIsClicked, tPos, tIsDown, tIsUp>>

OnTouchCancel ==
  /\ tTemp' = "cancelled"
  /\ tIsDown' = FALSE
  /\ tIsUp' = TRUE
  /\ UNCHANGED <<touchScreen, clickDelay, tState, tOld, tTimer, tIsClicked, tPos>>

\* Touch._update(deltaTime).
TouchUpdate(deltaTime) ==
  IF ~touchScreen
  THEN UNCHANGED touchVars
  ELSE
    LET timer == IF tTemp = "started" /\ tOld = "started" THEN 0 ELSE tTimer + deltaTime
    IN  /\ tTimer' = timer
        /\ IF tTemp = "ended"
           THEN /\ tState' = tTemp
                /\ tTemp' = tTemp
                /\ tIsClicked' = FALSE
           ELSE IF tState = tTemp
           THEN /\ tState' = Absent
                /\ tTemp' = Absent
                /\ tIsClicked' = FALSE
           ELSE /\ tIsClicked' = WithinClickDelay(timer)
                /\ tState' = "ended"
                /\ tTemp' = tTemp
        /\ tOld' = tState'
        /\ UNCHANGED <<touchScreen, clickDelay, tIsDown, tIsUp, tPos>>

TouchInit ==
  /\ touchScreen \in BOOLEAN
  /\ clickDelay = DefaultClickDelay
  /\ tState = Absent
  /\ tTemp = Absent
  /\ tOld = Absent
  /\ tTimer = 0
  /\ tIsDown = FALSE
  /\ tIsUp = TRUE
  /\ tIsClicked = FALSE
  /\ tPos = Origin
  /\ cPhase = "none"
  /\ cPure = TRUE
  /\ cDur = 0
  /\ cAfter = 0
  /\ cClicks = 0
  /\ tNew = Absent
  /\ tFolded = Absent
  /\ tRaw = <<>>
  /\ tBase = <<>>
  /\ tRead = Absent

\* The touch steps with the history of the current contact.
TouchStartStep(pages, offsets) ==
  \E page \in pages, offset \in offsets :
    /\ OnTouchStart(page, offset)
    /\ cPhase' = "down"
    /\ cPure' = TRUE
    /\ cDur' = 0
    /\ cAfter' = 0
    /\ cClicks' = 0
    /\ tNew' = "started"
    /\ tRaw' = ToCanvas(page, offset)
    /\ tBase' = canvasBaseSize
    /\ UNCHANGED <<tFolded, tRead, notTouch>>

TouchMoveStep ==
  \E page \in PagePoints, offset \in CanvasOffsets :
    /\ OnTouchMove(page, offset)
    /\ cPhase' = IF cPhase = "down" THEN "down" ELSE "none"
    /\ cPure' = FALSE
    /\ tNew' = "moved"
    /\ tRaw' = ToCanvas(page, offset)
    /\ tBase' = canvasBaseSize
    /\ UNCHANGED <<cDur, cAfter, cClicks, tFolded, tRead, notTouch>>

TouchEndStep ==
  /\ OnTouchEnd
  /\ cPhase' = IF cPhase = "down" THEN "ended" ELSE "none"
  /\ tNew' = "ended"
  /\ UNCHANGED <<cPure, cDur, cAfter, cClicks, tFolded, tRaw, tBase, tRead, notTouch>>

TouchCancelStep ==
  /\ OnTouchCancel
  /\ cPhase' = "none"
  /\ tNew' = "cancelled"
  /\ UNCHANGED <<cPure, cDur, cAfter, cClicks, tFolded, tRaw, tBase, tRead, notTouch>>

SetClickDelayStep ==
  \E delay \in ClickDelays :
    /\ SetClickDelay(delay)
    /\ UNCHANGED <<touchHist, notTouch>>

TouchUpdateCall(deltaTime) ==
  /\ TouchUpdate(deltaTime)
  /\ cDur' = IF touchScreen /\ cPhase = "down" THEN cDur + deltaTime ELSE cDur
  /\ cAfter' = IF touchScreen /\ cPhase = "ended" /\ cAfter < 2 THEN cAfter + 1 ELSE cAfter
  /\ cClicks' = IF touchScreen /\ cPhase # "none" /\ tIsClicked' THEN cClicks + 1 ELSE cClicks
  /\ tFolded' = IF touchScreen THEN tNew ELSE tFolded
  /\ tNew' = IF touchScreen THEN Absent ELSE tNew
  /\ tRead' = IF touchScreen THEN tTemp ELSE tRead
  /\ UNCHANGED <<cPhase, cPure, tRaw, tBase>>
TouchUpdateStep ==
  \E deltaTime \in 1..MaxDt :
    /\ tTimer + deltaTime <= MaxTimer
    /\ TouchUpdateCall(deltaTime)
    /\ UNCHANGED notTouch

(***************************************************************************)
(* The device singletons.  A function object is a triple                    *)
(* <<name, this, bind>>.                                                    *)
(***************************************************************************)
\* The result of `method.bind(this)`: a new function object at every call.
Bound(name, this, bind) == <<name, this, bind>>
Devices == {"Keyboard", "Mouse", "Touch"}
\* The bound _update a device singleton subscribes in its constructor.
DeviceUpdate(device) == Bound(device, 0, 0)

\* `Device.instance`: the first read constructs the singleton, whose
\* constructor subscribes its bound _update.
ConstructMissing(wanted) ==
  LET missing == SelectSeq(wanted, LAMBDA device : device \notin instances)
  IN /\ updateSubscribers' =
          updateSubscribers \o [i \in 1..Len(missing) |-> DeviceUpdate(missing[i])]
     /\ instances' = instances \cup {wanted[i] : i \in 1..Len(wanted)}

(***************************************************************************)
(* Clickable                                                               *)
(***************************************************************************)
\* Rectangle.isContainsPoint, the point being a pair of fractions.
IsContainsPoint(area, point) ==
  /\ point[1][1] >= area.position[1] * point[1][2]
  /\ point[1][1] <= (area.position[1] + area.size[1]) * point[1][2]
  /\ point[2][1] >= area.position[2] * point[2][2]
  /\ point[2][1] <= (area.position[2] + area.size[2]) * point[2][2]

IsUserClicking == MouseIsJustUp(Left) \/ tIsClicked
IsUserHovering == IsContainsPoint(Area, mPos) \/ IsContainsPoint(Area, tPos)
IsUserPressing == MouseIsDown(Left) \/ tIsDown

\* Clickable.update without the early return on Disabled.
ClickableUpdateNoGuard ==
  /\ ConstructMissing(<<"Mouse", "Touch">>)
  /\ clState' =
       IF IsUserClicking /\ IsUserHovering THEN "clicked"
       ELSE IF IsUserPressing /\ IsUserHovering THEN "pressed"
       ELSE IF IsUserHovering THEN "hovered"
       ELSE "released"

\* Clickable.update testing the press before the click.
ClickableUpdatePressFirst ==
  IF clState = "disabled"
  THEN UNCHANGED <<clState, updateSubscribers, instances>>
  ELSE /\ ConstructMissing(<<"Mouse", "Touch">>)
       /\ clState' =
            IF IsUserPressing /\ IsUserHovering THEN "pressed"
            ELSE IF IsUserClicking /\ IsUserHovering THEN "clicked"
            ELSE IF IsUserHovering THEN "hovered"
            ELSE "released"

\* Clickable.update: a Disabled Clickable returns at once; otherwise the
\* reads of Mouse.instance and Touch.instance come first.
ClickableUpdate ==
  IF clState = "disabled"
  THEN UNCHANGED <<clState, updateSubscribers, instances>>
  ELSE /\ ConstructMissing(<<"Mouse", "Touch">>)
       /\ clState' =
            IF IsUserClicking /\ IsUserHovering THEN "clicked"
            ELSE IF IsUserPressing /\ IsUserHovering THEN "pressed"
            ELSE IF IsUserHovering THEN "hovered"
            ELSE "released"

\* disable(false) resetting a Disabled Clickable only.
DisableKeepsInteraction(disabled) ==
  clState' = IF disabled THEN "disabled"
             ELSE IF clState = "disabled" THEN "released" ELSE clState
\* Clickable.disable(disabled) and Clickable.enable(enabled).
Disable(disabled) == clState' = IF disabled THEN "disabled" ELSE "released"
Enable(enabled) == Disable(~enabled)

Call(op, arg, wasDisabled, clicking, pressing, hovering, replaced) ==
  [op |-> op, arg |-> arg, wasDisabled |-> wasDisabled, replaced |-> replaced,
   clicking |-> clicking, pressing |-> pressing, hovering |-> hovering]

\* new Clickable(area, disabled).
ClickableInit ==
  /\ clState \in {"released", "disabled"}
  /\ clIn = Call("new", clState = "disabled", FALSE, FALSE, FALSE, FALSE, Absent)

ClickableUpdateStep ==
  /\ ClickableUpdate
  /\ clIn' = Call("update", FALSE, clState = "disabled",
                  IsUserClicking, IsUserPressing, IsUserHovering, Absent)
  /\ UNCHANGED <<kbdVars, kbdHist, mouseVars, mouseHist, touchVars, touchHist, apartVars,
                 preRenderSubscribers, postRenderSubscribers, loopDeltaTime, lastTime,
                 pending, pc, forEachK, forEachLen, frameScene, inCall, loopHist,
                 canvasVars, sceneVars, sceneHist, binds, widgets, field, sheet, goneSubs, animations>>

DisableStep ==
  \E disabled \in BOOLEAN :
    /\ Disable(disabled)
    /\ clIn' = Call("disable", disabled, clState = "disabled", FALSE, FALSE, FALSE, clState)
    /\ UNCHANGED notClickable

EnableStep ==
  \E enabled \in BOOLEAN :
    /\ Enable(enabled)
    /\ clIn' = Call("enable", enabled, clState = "disabled", FALSE, FALSE, FALSE, clState)
    /\ UNCHANGED notClickable

(***************************************************************************)
(* InputField: the submission by the Enter key.  _applyCanvasScale, called  *)
(* by _update, writes the style of the <input> element only.               *)
(***************************************************************************)
EnterKeys == {"Enter", "NumpadEnter"}
EventKeys == EnterKeys \cup {"a"}
Texts == {"", "x"}

\* new InputField(area, options).
InputFieldInit ==
  /\ isSubmittedByEnterKey = FALSE
  /\ isOldSubmitted = FALSE
  /\ fieldValue = ""
  /\ inputValue = ""
  /\ inputFocused = FALSE
  /\ enterCount = 0
  /\ fieldFrames = <<>>

\* The keydown event found the field focused and not empty.
Submits(key) == key \in EnterKeys /\ inputFocused /\ inputValue # ""

\* InputField._onEnter(event), the keydown listener.
OnEnter(key) ==
  /\ isSubmittedByEnterKey' = IF Submits(key) THEN TRUE ELSE isSubmittedByEnterKey
  /\ UNCHANGED <<isOldSubmitted, fieldValue, inputValue, inputFocused>>

\* InputField._onClick(event), after the browser moved the focus to the
\* element clicked.
OnClick(onInput) ==
  /\ inputFocused' = onInput
  /\ UNCHANGED <<isSubmittedByEnterKey, isOldSubmitted, fieldValue, inputValue>>

\* The user changing the text of the focused <input>.
TypeText(text) ==
  /\ inputFocused
  /\ inputValue' = text
  /\ UNCHANGED <<isSubmittedByEnterKey, isOldSubmitted, fieldValue, inputFocused>>

\* InputField.clear(), and the game writing getInputElement().value: the
\* text changes whether the <input> has the focus or not.
SetInputValue(text) ==
  /\ inputValue' = text
  /\ UNCHANGED <<isSubmittedByEnterKey, isOldSubmitted, fieldValue, inputFocused>>
InputFieldClear == SetInputValue("")

\* InputField._update(deltaTime).
InputFieldUpdate ==
  /\ isSubmittedByEnterKey' = IF isOldSubmitted THEN FALSE ELSE isSubmittedByEnterKey
  /\ isOldSubmitted' = isSubmittedByEnterKey'
  /\ fieldValue' = inputValue
  /\ UNCHANGED <<inputValue, inputFocused>>

\* The call with its history: the frame is the one in which it is made.
Frame(enters, seen) == [enters |-> enters, seen |-> seen]
LastTwo(frames) == IF Len(frames) > 2 THEN Tail(frames) ELSE frames
InputFieldUpdateCall ==
  /\ InputFieldUpdate
  /\ enterCount' = 0
  /\ fieldFrames' = LastTwo(Append(fieldFrames, Frame(enterCount, isSubmittedByEnterKey')))

(***************************************************************************)
(* SpriteSheetAnimation, and the SpriteSheet that plays it with its own     *)
(* frame index.  Time is in ticks and a speed is a fraction, so that        *)
(* `timer >= 1 / speed` is `timer * numerator >= denominator`; speed 0      *)
(* makes 1 / speed infinite.                                                *)
(***************************************************************************)
MaxFrames == 3
FrameLists == {[i \in 1..n |-> i - 1] : n \in 1..MaxFrames}
Speeds == {<<0, 1>>, <<1, 1>>, <<1, 3>>}

\* new SpriteSheetAnimation(frames, speed, loop).
SpriteSheetAnimationInit(frames, speed, loop) ==
  /\ animFrames = frames
  /\ animLoop = loop
  /\ animSpeed = speed
  /\ animIsEnded = FALSE
  /\ animTimer = 0
  /\ animCurrentFrame = 0
  /\ animCall = [op |-> "new", deltaTime |-> 0, currentFrame |-> 0, timer |-> 0,
                 isEnded |-> FALSE, assigned |-> FALSE]

\* set currentFrame(value): the index as given, in the frame list or not.
SetCurrentFrame(value) ==
  /\ animCurrentFrame' = value
  /\ UNCHANGED <<animParams, animIsEnded, animTimer>>

\* SpriteSheetAnimation.reset().
AnimationReset ==
  /\ animIsEnded' = FALSE
  /\ animTimer' = 0
  /\ animCurrentFrame' = 0
  /\ UNCHANGED animParams

\* this._timer >= 1 / this._speed
Elapsed(timer, speed) == timer * speed[1] >= speed[2]
\* The frame index and the ended flag after the increment of an index.
Advance(frame, frames, loop, isEnded) ==
  IF frame + 1 >= Len(frames)
    THEN IF loop THEN <<0, isEnded>> ELSE <<Len(frames) - 1, TRUE>>
    ELSE <<frame + 1, isEnded>>

\* update comparing the index with `>` where the source has `>=`.
AnimationUpdatePastEnd(deltaTime) ==
  LET timer == animTimer + deltaTime
      frame == animCurrentFrame + 1
  IN /\ animTimer' = IF Elapsed(timer, animSpeed) THEN 0 ELSE timer
     /\ animCurrentFrame' =
          IF ~Elapsed(timer, animSpeed) THEN animCurrentFrame
          ELSE IF frame > Len(animFrames)
                 THEN IF animLoop THEN 0 ELSE Len(animFrames) - 1
                 ELSE frame
     /\ animIsEnded' = (animIsEnded \/ (Elapsed(timer, animSpeed) /\ frame > Len(animFrames)
                                         /\ ~animLoop))
     /\ UNCHANGED animParams
\* SpriteSheetAnimation.update(deltaTime).
AnimationUpdate(deltaTime) ==
  LET timer == animTimer + deltaTime
      next == Advance(animCurrentFrame, animFrames, animLoop, animIsEnded)
  IN /\ animTimer' = IF Elapsed(timer, animSpeed) THEN 0 ELSE timer
     /\ animCurrentFrame' = IF Elapsed(timer, animSpeed) THEN next[1] ELSE animCurrentFrame
     /\ animIsEnded' = IF Elapsed(timer, animSpeed) THEN next[2] ELSE animIsEnded
     /\ UNCHANGED animParams

\* new SpriteSheet(imageName, frameSize).
SpriteSheetInit ==
  /\ sheetPlaying = FALSE
  /\ sheetCurrentFrame = 0
  /\ sheetTimerAnimation = 0
  /\ sheetIsAnimationEnded = FALSE

\* SpriteSheet.playAnimation(name): an error when no animation has that
\* name, else that animation from its first frame.
PlayAnimation(known) ==
  IF ~known
    THEN UNCHANGED sheetVars
    ELSE /\ sheetPlaying' = TRUE
         /\ sheetCurrentFrame' = 0
         /\ sheetTimerAnimation' = 0
         /\ sheetIsAnimationEnded' = FALSE

\* SpriteSheet._update(deltaTime), whose test is
\* this._timerAnimation >= this._currentAnimation.speed.
SpriteSheetUpdate(deltaTime) ==
  IF ~sheetPlaying
    THEN UNCHANGED sheetVars
    ELSE LET timer == sheetTimerAnimation + deltaTime
             due == timer * animSpeed[2] >= animSpeed[1]
             next == Advance(sheetCurrentFrame, animFrames, animLoop, sheetIsAnimationEnded)
         IN /\ sheetTimerAnimation' = IF due THEN 0 ELSE timer
            /\ sheetCurrentFrame' = IF due THEN next[1] ELSE sheetCurrentFrame
            /\ sheetIsAnimationEnded' = IF due THEN next[2] ELSE sheetIsAnimationEnded
            /\ UNCHANGED sheetPlaying

(***************************************************************************)
(* GameLoop, GameCanvas and SceneManager.  Time is the timestamp that       *)
(* requestAnimationFrame hands to _loop.  Two function objects are the      *)
(* same function exactly when their triples are equal, as indexOf compares  *)
(* references.                                                              *)
(***************************************************************************)
\* Longest update-subscriber list the game builds, latest timestamp of a
\* frame, and number of functions made by bind, in the model.
MaxSubs == 3
MaxTime == 3
MaxBinds == 3

NoScene == Absent
Scenes == {"A", "B"}
SceneNames == {"a", "b", "c"}

\* A function defined once by the game and passed by reference.
Fn(name) == <<name, 0, 0>>
UserFns == {Fn("f"), Fn("g")}
DrawFns == {Fn("p")}
RenderFns == {Fn("p"), Fn("q")}
\* The classes whose objects subscribe their own bound _update.
Classes == {"InputField", "SpriteSheet"}
\* A callback written by the game, of which nothing is known: it may raise
\* an error and it may call the engine.  The _update methods of the engine
\* return, and touch neither the loop nor the scenes.
GameCode(fn) == fn[1] \notin Devices \cup Classes

\* One call made by _loop: what was called, on or as what, with what.
Invocation(op, who, arg) == [op |-> op, who |-> who, arg |-> arg]

\* Array.prototype.indexOf (0-based, -1 when absent) and splice(index, 1).
IndexOf(list, x) ==
  IF \E i \in 1..Len(list) : list[i] = x
    THEN (CHOOSE i \in 1..Len(list) :
            list[i] = x /\ \A j \in 1..(i - 1) : list[j] # x) - 1
    ELSE -1
Splice(list, index) ==
  [i \in 1..(Len(list) - 1) |-> IF i <= index THEN list[i] ELSE list[i + 1]]

\* The unsubscribe body filtering out every entry identical to the subscriber.
UnsubscribeAll(list, subscriber) == SelectSeq(list, LAMBDA x : x # subscriber)

\* The body shared by the three unsubscribeFrom... methods.
Unsubscribe(list, subscriber) ==
  LET index == IndexOf(list, subscriber)
  IN IF index > -1 THEN Splice(list, index) ELSE list

\* subscribeToUpdate with unshift in place of push.
SubscribeToUpdateFirst(subscriber) ==
  updateSubscribers' = <<subscriber>> \o updateSubscribers
SubscribeToUpdate(subscriber) ==
  updateSubscribers' = Append(updateSubscribers, subscriber)
UnsubscribeFromUpdate(subscriber) ==
  updateSubscribers' = Unsubscribe(updateSubscribers, subscriber)
SubscribeToPreRender(subscriber) ==
  preRenderSubscribers' = Append(preRenderSubscribers, subscriber)
UnsubscribeFromPreRender(subscriber) ==
  preRenderSubscribers' = Unsubscribe(preRenderSubscribers, subscriber)
SubscribeToPostRender(subscriber) ==
  postRenderSubscribers' = Append(postRenderSubscribers, subscriber)
UnsubscribeFromPostRender(subscriber) ==
  postRenderSubscribers' = Unsubscribe(postRenderSubscribers, subscriber)

\* new GameLoop(): empty lists and the first requestAnimationFrame.
GameLoopInit ==
  /\ updateSubscribers = <<>>
  /\ preRenderSubscribers = <<>>
  /\ postRenderSubscribers = <<>>
  /\ loopDeltaTime = 0
  /\ lastTime = 0
  /\ pending = 1
  /\ pc = "idle"
  /\ forEachK = 0
  /\ forEachLen = 0
  /\ frameScene = NoScene
  /\ inCall = FALSE
  /\ frameLog = <<>>
  /\ frameSubs = <<>>
  /\ frameTouched = FALSE
  /\ frameThrew = FALSE
  /\ frameGone = {}
  /\ drawSubs = <<>>
  /\ drawTouched = FALSE

\* The engine can be called by the game: between two frames, or from inside
\* a callback that _loop is executing.
CanCall == pc = "idle" \/ inCall

lists == <<updateSubscribers, preRenderSubscribers, postRenderSubscribers>>
clock == <<loopDeltaTime, lastTime>>

\* _loop(time), down to the start of the first forEach.
LoopBegin(time) ==
  /\ pc = "idle"
  /\ pending > 0
  /\ pending' = pending - 1
  /\ loopDeltaTime' = time - lastTime
  /\ lastTime' = time
  /\ frameScene' = currentScene
  /\ pc' = "update"
  /\ forEachK' = 0
  /\ forEachLen' = Len(updateSubscribers)
  /\ inCall' = FALSE
  /\ frameLog' = <<>>
  /\ frameSubs' = updateSubscribers
  /\ frameTouched' = FALSE
  /\ frameThrew' = FALSE
  /\ frameGone' = {}
  /\ drawSubs' = <<>>
  /\ drawTouched' = FALSE
  /\ UNCHANGED lists

\* What the _update methods of the engine read and write.
polled == <<kbdVars, kbdHist, mouseVars, mouseHist, touchVars, touchHist,
            fieldVars, fieldHist, sheetVars>>
\* The object whose bound _update the function is.
IsUpdateOf(fn, object) == object # NoObject /\ fn[1] = object[1] /\ fn[2] = object[2]
\* subscriber(deltaTime): the bound _update of a device, of the InputField
\* or of the SpriteSheet runs that method; of what a callback of the game
\* does, the model keeps its outcome and the calls it makes on the engine.
CallSubscriber(fn, deltaTime) ==
  IF fn = DeviceUpdate("Keyboard")
    THEN KeyboardUpdateCall
         /\ UNCHANGED <<mouseVars, mouseHist, touchVars, touchHist, fieldVars, fieldHist, sheetVars>>
  ELSE IF fn = DeviceUpdate("Mouse")
    THEN MouseUpdateCall
         /\ UNCHANGED <<kbdVars, kbdHist, touchVars, touchHist, fieldVars, fieldHist, sheetVars>>
  ELSE IF fn = DeviceUpdate("Touch")
    THEN TouchUpdateCall(deltaTime)
         /\ UNCHANGED <<kbdVars, kbdHist, mouseVars, mouseHist, fieldVars, fieldHist, sheetVars>>
  ELSE IF IsUpdateOf(fn, field)
    THEN InputFieldUpdateCall
         /\ UNCHANGED <<kbdVars, kbdHist, mouseVars, mouseHist, touchVars, touchHist, sheetVars>>
  ELSE IF IsUpdateOf(fn, sheet)
    THEN SpriteSheetUpdate(deltaTime)
         /\ UNCHANGED <<kbdVars, kbdHist, mouseVars, mouseHist, touchVars, touchHist,
                        fieldVars, fieldHist>>
  ELSE UNCHANGED polled

\* One iteration of a forEach of _loop over `list`: index k is visited when
\* it is still in the list.  A callback of the game is entered here and is
\* executing until the next step of _loop, or until CallbackThrows.
ForEach(phase, list, op, arg) ==
  /\ pc = phase
  /\ forEachK < forEachLen
  /\ forEachK' = forEachK + 1
  /\ IF forEachK < Len(list)
       THEN /\ CallSubscriber(list[forEachK + 1], arg)
            /\ frameLog' = Append(frameLog, Invocation(op, list[forEachK + 1], arg))
            /\ inCall' = GameCode(list[forEachK + 1])
       ELSE /\ frameLog' = frameLog
            /\ inCall' = FALSE
            /\ UNCHANGED polled
  /\ UNCHANGED <<lists, clock, pending, pc, forEachLen, frameScene, frameSubs, frameTouched,
               frameThrew, frameGone, drawSubs, drawTouched>>

\* The callback that _loop is executing throws, after the calls it has made
\* on the engine: the error leaves _loop, which does not reach its
\* requestAnimationFrame.
CallbackThrows ==
  /\ pc # "idle"
  /\ inCall
  /\ pc' = "idle"
  /\ inCall' = FALSE
  /\ frameThrew' = TRUE
  /\ UNCHANGED <<lists, clock, pending, forEachK, forEachLen, frameScene, frameLog, frameSubs,
                 frameTouched, frameGone, drawSubs, drawTouched>>

\* this._updateSubscribers.forEach((subscriber) => subscriber(this._deltaTime))
ForEachUpdate ==
  ForEach("update", updateSubscribers, "update", loopDeltaTime)
\* this._preRenderSubscribers.forEach((subscriber) => subscriber(gameCanvas.context))
ForEachPreRender ==
  ForEach("preRender", preRenderSubscribers, "preRender", 0)
\* The post-render forEach iterating _preRenderSubscribers.
ForEachPostRenderOverPre ==
  ForEach("postRender", preRenderSubscribers, "postRender", 0)
\* this._postRenderSubscribers.forEach((subscriber) => subscriber(gameCanvas.context))
ForEachPostRender ==
  ForEach("postRender", postRenderSubscribers, "postRender", 0)

\* A call on the scene read at the top of _loop, skipped by `?.` when
\* there is none, after the forEach of `phase`; then `next` begins.
SceneCall(phase, op, arg, next, nextList) ==
  /\ pc = phase
  /\ forEachK >= forEachLen
  /\ IF frameScene # NoScene
       THEN /\ frameLog' = Append(frameLog, Invocation(op, Fn(frameScene), arg))
            /\ inCall' = TRUE
       ELSE /\ frameLog' = frameLog
            /\ inCall' = FALSE
  /\ pc' = next
  /\ forEachK' = 0
  /\ forEachLen' = Len(nextList)
  /\ drawSubs' = nextList
  /\ drawTouched' = FALSE
  /\ UNCHANGED <<lists, clock, pending, frameScene, frameSubs, frameTouched, frameThrew,
                 frameGone>>

\* currentScene?.update(this._deltaTime)
SceneUpdate ==
  SceneCall("update", "sceneUpdate", loopDeltaTime, "clear", <<>>)
\* _loop calling the scene's update a second time where it should draw.
SceneDrawAsUpdate ==
  SceneCall("preRender", "sceneUpdate", loopDeltaTime, "postRender", postRenderSubscribers)
\* _loop drawing SceneManager.instance.currentScene as it is when the draw
\* is reached.
SceneDrawCurrent ==
  /\ pc = "preRender"
  /\ forEachK >= forEachLen
  /\ IF currentScene # NoScene
       THEN /\ frameLog' = Append(frameLog, Invocation("sceneDraw", Fn(currentScene), 0))
            /\ inCall' = TRUE
       ELSE /\ frameLog' = frameLog
            /\ inCall' = FALSE
  /\ pc' = "postRender"
  /\ forEachK' = 0
  /\ forEachLen' = Len(postRenderSubscribers)
  /\ drawSubs' = postRenderSubscribers
  /\ drawTouched' = FALSE
  /\ UNCHANGED <<lists, clock, pending, frameScene, frameSubs, frameTouched, frameThrew,
                 frameGone>>
\* currentScene?.draw(gameCanvas.context), before the post-render forEach.
SceneDraw ==
  SceneCall("preRender", "sceneDraw", 0, "postRender", postRenderSubscribers)

\* gameCanvas.clearScreen(): an error before GameCanvas.init, which ends
\* _loop; otherwise the pre-render forEach begins.
ClearScreen ==
  /\ pc = "clear"
  /\ IF ~isInitialized
       THEN /\ frameLog' = frameLog
            /\ pc' = "idle"
            /\ frameThrew' = TRUE
       ELSE /\ frameLog' = Append(frameLog, Invocation("clear", Fn("canvas"), 0))
            /\ pc' = "preRender"
            /\ frameThrew' = frameThrew
  /\ forEachK' = 0
  /\ forEachLen' = Len(preRenderSubscribers)
  /\ inCall' = FALSE
  /\ drawSubs' = preRenderSubscribers
  /\ drawTouched' = FALSE
  /\ UNCHANGED <<lists, clock, pending, frameScene, frameSubs, frameTouched, frameGone>>

\* requestAnimationFrame(this._loop.bind(this)), the last statement of _loop.
RequestFrame ==
  /\ pc = "postRender"
  /\ forEachK >= forEachLen
  /\ pending' = pending + 1
  /\ pc' = "idle"
  /\ inCall' = FALSE
  /\ frameLog' = <<>>
  /\ frameSubs' = <<>>
  /\ frameTouched' = FALSE
  /\ frameGone' = {}
  /\ drawSubs' = <<>>
  /\ drawTouched' = FALSE
  /\ UNCHANGED <<lists, clock, forEachK, forEachLen, frameScene, frameThrew>>

(***************************************************************************)
(* The GameLoop that has no render lists: the same steps, call by call.    *)
(***************************************************************************)
\* new GameLoop().
TwoPhaseInit ==
  twoPhase = [updateSubscribers |-> <<>>, deltaTime |-> 0, lastTime |-> 0,
              pending |-> 1, pc |-> "idle", forEachK |-> 0, forEachLen |-> 0,
              currentScene |-> NoScene, inCall |-> FALSE, log |-> <<>>]

TwoPhaseSubscribeToUpdate(subscriber) ==
  twoPhase' = [twoPhase EXCEPT !.updateSubscribers = Append(@, subscriber)]
TwoPhaseUnsubscribeFromUpdate(subscriber) ==
  twoPhase' = [twoPhase EXCEPT !.updateSubscribers = Unsubscribe(@, subscriber)]

\* _loop(time), down to the start of the forEach.
TwoPhaseLoopBegin(time) ==
  /\ twoPhase.pc = "idle"
  /\ twoPhase.pending > 0
  /\ twoPhase' = [twoPhase EXCEPT !.pending = @ - 1,
                                  !.deltaTime = time - twoPhase.lastTime,
                                  !.lastTime = time,
                                  !.currentScene = currentScene,
                                  !.pc = "update",
                                  !.forEachK = 0,
                                  !.forEachLen = Len(twoPhase.updateSubscribers),
                                  !.inCall = FALSE,
                                  !.log = <<>>]

\* One iteration of this._updateSubscribers.forEach(...).
TwoPhaseForEachUpdate ==
  LET list == twoPhase.updateSubscribers
      k == twoPhase.forEachK
  IN /\ twoPhase.pc = "update"
     /\ k < twoPhase.forEachLen
     /\ IF k < Len(list)
          THEN /\ CallSubscriber(list[k + 1], twoPhase.deltaTime)
               /\ twoPhase' =
                    [twoPhase EXCEPT !.forEachK = k + 1,
                                     !.log = Append(@, Invocation("update", list[k + 1],
                                                                  twoPhase.deltaTime)),
                                     !.inCall = GameCode(list[k + 1])]
          ELSE /\ twoPhase' = [twoPhase EXCEPT !.forEachK = k + 1, !.inCall = FALSE]
               /\ UNCHANGED polled

\* The callback that _loop is executing throws: _loop ends with the error.
TwoPhaseCallbackThrows ==
  /\ twoPhase.pc # "idle"
  /\ twoPhase.inCall
  /\ twoPhase' = [twoPhase EXCEPT !.pc = "idle", !.inCall = FALSE]

\* A call on the scene read at the top of _loop, skipped by `?.`.
TwoPhaseSceneCall(phase, op, arg, next) ==
  /\ twoPhase.pc = phase
  /\ twoPhase' =
       IF twoPhase.currentScene # NoScene
         THEN [twoPhase EXCEPT !.log = Append(@, Invocation(op, Fn(twoPhase.currentScene), arg)),
                               !.inCall = TRUE,
                               !.pc = next]
         ELSE [twoPhase EXCEPT !.inCall = FALSE, !.pc = next]

\* currentScene?.update(this._deltaTime)
TwoPhaseSceneUpdate ==
  /\ twoPhase.forEachK >= twoPhase.forEachLen
  /\ TwoPhaseSceneCall("update", "sceneUpdate", twoPhase.deltaTime, "clear")

\* gameCanvas.clearScreen()
TwoPhaseClearScreen ==
  /\ twoPhase.pc = "clear"
  /\ twoPhase' =
       IF ~isInitialized
         THEN [twoPhase EXCEPT !.pc = "idle", !.inCall = FALSE]
         ELSE [twoPhase EXCEPT !.pc = "draw",
                               !.inCall = FALSE,
                               !.log = Append(@, Invocation("clear", Fn("canvas"), 0))]

\* _loop drawing the scene that is current when the draw is reached.
TwoPhaseSceneDrawCurrent ==
  /\ twoPhase.pc = "draw"
  /\ twoPhase' =
       IF currentScene # NoScene
         THEN [twoPhase EXCEPT !.log = Append(@, Invocation("sceneDraw", Fn(currentScene), 0)),
                               !.inCall = TRUE,
                               !.pc = "request"]
         ELSE [twoPhase EXCEPT !.inCall = FALSE, !.pc = "request"]
\* currentScene?.draw(gameCanvas.context)
TwoPhaseSceneDraw ==
  TwoPhaseSceneCall("draw", "sceneDraw", 0, "request")

\* requestAnimationFrame(this._loop.bind(this))
TwoPhaseRequestFrame ==
  /\ twoPhase.pc = "request"
  /\ twoPhase' = [twoPhase EXCEPT !.pending = @ + 1, !.pc = "idle", !.inCall = FALSE,
                                  !.log = <<>>]

(***************************************************************************)
(* GameCanvas.  The scale is kept as the fraction the division of _getScale *)
(* is given, so that no rounding enters the model.                          *)
(***************************************************************************)
\* DEFAULT_CANVAS_SIZE, options.size when init is given one (<<>> when it
\* is not), and window.innerWidth/innerHeight.
DefaultCanvasSize == <<800, 600>>
NoSize == <<>>
OptionSizes == {NoSize, BaseSize}
WindowSizes == {<<800, 600>>, <<1600, 600>>, <<6, 2>>}
One == <<1, 1>>

\* What a call on the GameCanvas did: "returns" with the value returned
\* (<<>> for the instance itself) or "throws".
Result(op, initialized, outcome, value) ==
  [op |-> op, initialized |-> initialized, outcome |-> outcome, value |-> value]
Thrown(op) == Result(op, isInitialized, "throws", <<>>)
Returned(op, value) == Result(op, isInitialized, "returns", value)

\* GameCanvas._getScale(windowSize, ratio) with ratio = baseSize.x / baseSize.y.
GetScale(windowSize, baseSize) ==
  IF windowSize[1] * baseSize[2] > baseSize[1] * windowSize[2]
    THEN <<windowSize[2], baseSize[2]>>
    ELSE <<windowSize[1], baseSize[1]>>

\* GameCanvas.init(options), the window being of windowSize: the fields,
\* parent.appendChild(this._canvas), _isInitialized, then _resize() and the
\* focus given to the canvas.  appendChild takes the canvas out of the place
\* it had in the document, and a fullscreen element that is removed leaves
\* fullscreen at once; the requests not yet answered stay with the browser.
GameCanvasInit(size, windowSize) ==
  /\ canvasBaseSize' = IF size = NoSize THEN DefaultCanvasSize ELSE size
  /\ isInitialized' = TRUE
  /\ canvasScale' = GetScale(windowSize, canvasBaseSize')
  /\ inputFocused' = FALSE
  /\ fullscreenElement' = FALSE
  /\ UNCHANGED fullscreenRequests
  /\ canvasCall' = Result("init", TRUE, "returns", <<>>)

\* GameCanvas._resize(), called by the listeners that init registers.
Resize(windowSize) ==
  IF ~isInitialized
    THEN canvasCall' = Thrown("resize") /\ UNCHANGED canvasState
    ELSE /\ canvasScale' = GetScale(windowSize, canvasBaseSize)
         /\ UNCHANGED <<isInitialized, canvasBaseSize, fullscreenElement, fullscreenRequests>>
         /\ canvasCall' = Returned("resize", <<>>)

\* The getters baseSize, scale and position; rect is the top-left corner
\* that getBoundingClientRect gives.
GetBaseSize ==
  canvasCall' = Returned("baseSize", canvasBaseSize) /\ UNCHANGED canvasState
GetCanvasScale ==
  canvasCall' = Returned("scale", canvasScale) /\ UNCHANGED canvasState
GetPosition(rect) ==
  canvasCall' = Returned("position", rect) /\ UNCHANGED canvasState

\* The requests for which the browser has not yet changed
\* document.fullscreenElement, oldest first, and how many it may hold.
MaxRequests == 2
Enter == "requestFullscreen"
Exit == "exitFullscreen"

\* GameCanvas.fullscreen(): requestFullscreen() is issued and the call
\* returns; document.fullscreenElement is as it was.
Fullscreen(op) ==
  IF ~isInitialized
    THEN canvasCall' = Thrown(op) /\ UNCHANGED canvasState
    ELSE /\ fullscreenRequests' = Append(fullscreenRequests, Enter)
         /\ UNCHANGED <<isInitialized, canvasBaseSize, canvasScale, fullscreenElement>>
         /\ canvasCall' = Returned(op, <<>>)
\* GameCanvas.exitFullscreen(): document.exitFullscreen(), which the
\* browser rejects at once when there is no fullscreen element; its promise
\* is dropped and the call returns.
ExitFullscreen(op) ==
  IF ~isInitialized
    THEN canvasCall' = Thrown(op) /\ UNCHANGED canvasState
    ELSE /\ fullscreenRequests' = IF fullscreenElement
                                    THEN Append(fullscreenRequests, Exit)
                                    ELSE fullscreenRequests
         /\ UNCHANGED <<isInitialized, canvasBaseSize, canvasScale, fullscreenElement>>
         /\ canvasCall' = Returned(op, <<>>)
\* GameCanvas.toggleFullscreen().
ToggleFullscreen ==
  IF ~isInitialized
    THEN canvasCall' = Thrown("toggleFullscreen") /\ UNCHANGED canvasState
    ELSE IF fullscreenElement
           THEN ExitFullscreen("toggleFullscreen")
           ELSE Fullscreen("toggleFullscreen")
\* The browser answering the oldest request, in a later task: the canvas
\* becomes the fullscreen element when the request is granted, and an exit
\* leaves none.
FullscreenChange(granted) ==
  /\ fullscreenRequests # <<>>
  /\ fullscreenElement' = IF Head(fullscreenRequests) = Enter
                            THEN fullscreenElement \/ granted
                            ELSE FALSE
  /\ fullscreenRequests' = Tail(fullscreenRequests)
  /\ UNCHANGED <<isInitialized, canvasBaseSize, canvasScale, canvasCall>>
\* GameCanvas.clearScreen() called by the game.
CanvasClearScreen ==
  /\ canvasCall' = IF ~isInitialized THEN Thrown("clearScreen")
                                     ELSE Returned("clearScreen", <<>>)
  /\ UNCHANGED canvasState

\* new GameCanvas(), by the first read of GameCanvas.instance.
GameCanvasNew ==
  /\ isInitialized = FALSE
  /\ canvasBaseSize = DefaultCanvasSize
  /\ canvasScale = One
  /\ fullscreenElement = FALSE
  /\ fullscreenRequests = <<>>
  /\ canvasCall = Result("new", FALSE, "returns", <<>>)

\* Game.start(): GameLoop, Keyboard, Mouse, Touch, in this order.
GameStart == ConstructMissing(<<"Keyboard", "Mouse", "Touch">>)

(***************************************************************************)
(* SceneManager (the variant that keeps the scenes by name).               *)
(***************************************************************************)
\* SceneManager._addScene for each entry of the Map, in insertion order; an
\* existing name raises an error and the entries after it are not added.
\* _addScene without the test of the name: Map.set replaces the entry.
RECURSIVE AddEachReplace(_, _)
AddEachReplace(container, entries) ==
  IF entries = <<>> THEN container
  ELSE AddEachReplace([container EXCEPT ![Head(entries)[1]] = Head(entries)[2]],
                      Tail(entries))
RECURSIVE AddEach(_, _)
AddEach(container, entries) ==
  IF entries = <<>> \/ container[Head(entries)[1]] # NoScene
    THEN container
    ELSE AddEach([container EXCEPT ![Head(entries)[1]] = Head(entries)[2]],
                 Tail(entries))
\* Whether that forEach is ended by the 'already exists' error.
RECURSIVE AddThrows(_, _)
AddThrows(container, entries) ==
  /\ entries # <<>>
  /\ \/ container[Head(entries)[1]] # NoScene
     \/ AddThrows([container EXCEPT ![Head(entries)[1]] = Head(entries)[2]],
                  Tail(entries))
\* One registration call: "returns" or "throws".
Registration(op, entries, before, threw) ==
  [op |-> op, entries |-> entries, before |-> before,
   outcome |-> IF threw THEN "throws" ELSE "returns"]
AddScenes(entries) ==
  /\ scenesContainer' = AddEach(scenesContainer, entries)
  /\ registered' = Registration("addScenes", entries, scenesContainer,
                                AddThrows(scenesContainer, entries))
  /\ UNCHANGED currentScene

\* The scenes loaded and not unloaded after `calls` were made from `loaded`.
RECURSIVE AfterCalls(_, _)
AfterCalls(loaded, calls) ==
  IF calls = <<>> THEN loaded
  ELSE AfterCalls(IF Head(calls).op = "load" THEN loaded \cup {Head(calls).who}
                  ELSE loaded \ {Head(calls).who},
                  Tail(calls))
Loaded == AfterCalls(loadedBefore, sceneCalls)

\* What a hook of a scene (load, unload) does when setScene calls it: it
\* returns, it raises an error, or it calls setScene with a name, then
\* returns; the hooks of that inner call return.
Returns == <<"returns">>
Throws == <<"throws">>
CallsSetScene(name) == <<"setScene", name>>
Hooks(names) == {Returns, Throws} \cup {CallsSetScene(name) : name \in names}
\* The error setScene raises itself, and an error that came out of a hook.
NoError == "none"
DoesNotExist == "does not exist"
HookError == "hook"

\* What a setScene call leaves: the current scene, the calls made on scenes
\* in order, the error that ended it.
Ended(current, calls, error) == [current |-> current, calls |-> calls, error |-> error]
\* setScene(name) whose hooks return, from the scene `current`.
SetSceneOfReturning(current, name) ==
  LET newScene == scenesContainer[name]
  IN IF newScene = NoScene THEN Ended(current, <<>>, DoesNotExist)
     ELSE Ended(newScene,
               (IF current # NoScene THEN <<Invocation("unload", current, 0)>> ELSE <<>>)
                 \o <<Invocation("load", newScene, 0)>>,
               NoError)
\* A hook called on `scene` while `current` is the current scene: an inner
\* setScene that raises its error makes the hook raise it.
HookCall(op, scene, current, hook) ==
  LET inner == SetSceneOfReturning(current, hook[2])
  IN IF hook = Returns THEN Ended(current, <<Invocation(op, scene, 0)>>, NoError)
     ELSE IF hook = Throws THEN Ended(current, <<Invocation(op, scene, 0)>>, HookError)
     ELSE Ended(inner.current, <<Invocation(op, scene, 0)>> \o inner.calls,
               IF inner.error = NoError THEN NoError ELSE HookError)
\* setScene(name), statement by statement.
SetSceneOf(name, unload, load) ==
  LET newScene == scenesContainer[name]
      unloaded == IF currentScene # NoScene
                    THEN HookCall("unload", currentScene, currentScene, unload)
                    ELSE Ended(currentScene, <<>>, NoError)
      loaded == HookCall("load", newScene, newScene, load)
  IN IF newScene = NoScene THEN Ended(currentScene, <<>>, DoesNotExist)
     ELSE IF unloaded.error # NoError THEN unloaded
     ELSE Ended(loaded.current, unloaded.calls \o loaded.calls, loaded.error)

\* setScene calling unload on the current scene before it looks the name up.
SetSceneUnloadFirst(name, unload, load) ==
  LET newScene == scenesContainer[name]
      first == IF currentScene # NoScene
                 THEN <<Invocation("unload", currentScene, 0)>> ELSE <<>>
  IN /\ sceneError' = IF newScene = NoScene THEN DoesNotExist ELSE NoError
     /\ sceneCalls' = IF newScene = NoScene
                        THEN first ELSE first \o <<Invocation("load", newScene, 0)>>
     /\ loadedBefore' = Loaded
     /\ currentScene' = IF newScene = NoScene THEN currentScene ELSE newScene
     /\ UNCHANGED <<scenesContainer, registered>>

\* SceneManager.setScene(name): an error for an unknown name; otherwise
\* unload on the current scene if there is one, the assignment of the new
\* scene, then load on it.  An error raised by unload leaves the scene
\* current, one raised by load leaves the new scene current.
SetScene(name, unload, load) ==
  LET ended == SetSceneOf(name, unload, load)
  IN IF ended.error = DoesNotExist
       THEN /\ sceneError' = DoesNotExist
            /\ UNCHANGED <<sceneVars, sceneCalls, loadedBefore, registered>>
       ELSE /\ sceneError' = ended.error
            /\ sceneCalls' = ended.calls
            /\ loadedBefore' = Loaded
            /\ currentScene' = ended.current
            /\ UNCHANGED <<scenesContainer, registered>>

SceneManagerInit ==
  /\ currentScene = NoScene
  /\ scenesContainer = [name \in SceneNames |-> NoScene]
  /\ sceneCalls = <<>>
  /\ loadedBefore = {}
  /\ sceneError = NoError
  /\ registered = Registration("new", <<>>, scenesContainer, FALSE)

(***************************************************************************)
(* The objects that subscribe their own _update: InputField, SpriteSheet.  *)
(* An object is the pair <<class, number>>.                                *)
(***************************************************************************)
\* The constructor: subscribeToUpdate(this._update.bind(this)).  That of an
\* InputField first appends its form to the parent of the canvas, which is
\* null before GameCanvas.init: an error, and nothing is subscribed.  The
\* fields of a new object have the values of InputFieldInit, SpriteSheetInit.
Construct(class) ==
  LET this == <<class, binds + 1>>
  IN IF class = "InputField" /\ ~isInitialized
       THEN UNCHANGED <<updateSubscribers, objectVars>>
       ELSE /\ SubscribeToUpdate(Bound(class, this[2], binds + 1))
            /\ binds' = binds + 1
            /\ widgets' = widgets \cup {this}
            /\ field' = IF class = "InputField" /\ field = NoObject THEN this ELSE field
            /\ sheet' = IF class = "SpriteSheet" /\ sheet = NoObject THEN this ELSE sheet
            /\ UNCHANGED <<instances, goneSubs, animations>>

\* InputField.destroy() and SpriteSheet.cleanBeforeDestroy():
\* unsubscribeFromUpdate(this._update.bind(this)), a second bind.  destroy()
\* first removes the two listeners and the <input>, which loses the focus.
Destroy(this) ==
  /\ UnsubscribeFromUpdate(Bound(this[1], this[2], binds + 1))
  /\ binds' = binds + 1
  /\ widgets' = widgets \ {this}
  /\ goneSubs' = goneSubs \cup {Bound(this[1], this[2], this[2])}
  /\ inputFocused' = IF this = field THEN FALSE ELSE inputFocused
  /\ UNCHANGED <<instances, animations, field, sheet>>

\* SpriteSheet.addAnimation(name, animation): an error for a name that is
\* in the map, which is then left as it is.
NoAnimation == Absent
AnimationNames == {"walk", "idle"}
Animations == {"w", "x"}
AddAnimation(name, animation) ==
  /\ animations' = IF animations[name] # NoAnimation THEN animations
                   ELSE [animations EXCEPT ![name] = animation]
  /\ registered' = Registration("addAnimation", << <<name, animation>> >>, animations,
                                animations[name] # NoAnimation)

ObjectsInit ==
  /\ instances = {}
  /\ binds = 0
  /\ widgets = {}
  /\ field = NoObject
  /\ sheet = NoObject
  /\ goneSubs = {}
  /\ animations = [name \in AnimationNames |-> NoAnimation]

(***************************************************************************)
(* The steps of the engine: each operation with the history variables and  *)
(* the frame condition.  A call made while _loop is executing a callback   *)
(* is a call made by that callback.                                         *)
(***************************************************************************)
Range(list) == {list[i] : i \in 1..Len(list)}

\* The loop variables a change of _updateSubscribers leaves alone.
loopRest == <<preRenderSubscribers, postRenderSubscribers, clock, pending, pc,
              forEachK, forEachLen, frameScene, inCall, frameLog, frameSubs, frameThrew,
              drawSubs, drawTouched>>
TouchedBy(list) == frameTouched \/ (pc # "idle" /\ list # updateSubscribers)
\* The functions removed during the _loop call before its clearScreen,
\* with those a call made inside a callback has just taken from the list.
GoneBy(list) ==
  IF pc \notin {"update", "clear"} THEN frameGone
  ELSE frameGone \cup
         {fn \in Range(updateSubscribers) :
            Cardinality({i \in 1..Len(list) : list[i] = fn})
              < Cardinality({i \in 1..Len(updateSubscribers) : updateSubscribers[i] = fn})}
\* A render list was changed while its forEach is in progress.
DrawTouchedBy(phase, list, before) == drawTouched \/ (pc = phase /\ list # before)

SubscribeToUpdateStep(fns) ==
  \E subscriber \in fns :
    /\ CanCall
    /\ Len(updateSubscribers) < MaxSubs
    /\ SubscribeToUpdate(subscriber)
    /\ frameTouched' = TouchedBy(updateSubscribers')
    /\ frameGone' = GoneBy(updateSubscribers')
    /\ UNCHANGED <<inputVars, loopRest, canvasVars, sceneVars, sceneHist, objectVars>>

UnsubscribeFromUpdateStep(fns) ==
  \E subscriber \in fns :
    /\ CanCall
    /\ UnsubscribeFromUpdate(subscriber)
    /\ frameTouched' = TouchedBy(updateSubscribers')
    /\ frameGone' = GoneBy(updateSubscribers')
    /\ UNCHANGED <<inputVars, loopRest, canvasVars, sceneVars, sceneHist, objectVars>>

\* The loop variables a change of the two render lists leaves alone.
renderRest == <<updateSubscribers, clock, pending, pc, forEachK,
                frameScene, inCall, frameLog, frameSubs, frameTouched, frameThrew,
                frameGone>>
\* The scene's draw is executing: the post-render forEach that follows it
\* has not read its list yet.
InSceneDraw ==
  /\ pc = "postRender" /\ inCall /\ forEachK = 0
  /\ frameLog # <<>> /\ frameLog[Len(frameLog)].op = "sceneDraw"
\* A change of _postRenderSubscribers as the post-render forEach sees it.
PostRenderSeen ==
  IF InSceneDraw
    THEN /\ forEachLen' = Len(postRenderSubscribers')
         /\ drawSubs' = postRenderSubscribers'
         /\ drawTouched' = FALSE
    ELSE /\ drawTouched' = DrawTouchedBy("postRender", postRenderSubscribers', postRenderSubscribers)
         /\ UNCHANGED <<forEachLen, drawSubs>>

SubscribeToPreRenderStep(fns) ==
  \E subscriber \in fns :
    /\ CanCall
    /\ subscriber \notin Range(preRenderSubscribers)
    /\ SubscribeToPreRender(subscriber)
    /\ drawTouched' = DrawTouchedBy("preRender", preRenderSubscribers', preRenderSubscribers)
    /\ UNCHANGED <<forEachLen, drawSubs>>
    /\ UNCHANGED <<inputVars, postRenderSubscribers, renderRest, canvasVars,
                   sceneVars, sceneHist, objectVars>>

UnsubscribeFromPreRenderStep(fns) ==
  \E subscriber \in fns :
    /\ CanCall
    /\ UnsubscribeFromPreRender(subscriber)
    /\ drawTouched' = DrawTouchedBy("preRender", preRenderSubscribers', preRenderSubscribers)
    /\ UNCHANGED <<forEachLen, drawSubs>>
    /\ UNCHANGED <<inputVars, postRenderSubscribers, renderRest, canvasVars,
                   sceneVars, sceneHist, objectVars>>

SubscribeToPostRenderStep(fns) ==
  \E subscriber \in fns :
    /\ CanCall
    /\ subscriber \notin Range(postRenderSubscribers)
    /\ SubscribeToPostRender(subscriber)
    /\ PostRenderSeen
    /\ UNCHANGED <<inputVars, preRenderSubscribers, renderRest, canvasVars,
                   sceneVars, sceneHist, objectVars>>

UnsubscribeFromPostRenderStep(fns) ==
  \E subscriber \in fns :
    /\ CanCall
    /\ UnsubscribeFromPostRender(subscriber)
    /\ PostRenderSeen
    /\ UNCHANGED <<inputVars, preRenderSubscribers, renderRest, canvasVars,
                   sceneVars, sceneHist, objectVars>>

\* What a change of the focus leaves alone among the inputs.
notFocus == <<deviceVars, twoPhase, fieldRest, fieldHist, animVars, sheetVars, animCall>>
notCanvas == <<inputVars, loopVars, loopHist, sceneVars, sceneHist, objectVars>>

GameCanvasInitStep(sizes, windows) ==
  \E size \in sizes, windowSize \in windows :
    /\ CanCall
    /\ GameCanvasInit(size, windowSize)
    /\ UNCHANGED <<notFocus, loopVars, loopHist, sceneVars, sceneHist, objectVars>>

\* A resize or orientationchange event of the window.
ResizeStep ==
  \E windowSize \in WindowSizes :
    /\ isInitialized
    /\ Resize(windowSize)
    /\ UNCHANGED notCanvas

\* The canvas is in the document, somewhere on the page, after init only.
GetPositionStep ==
  \E rect \in IF isInitialized THEN CanvasOffsets ELSE {<<0, 0>>} :
    GetPosition(rect) /\ UNCHANGED notCanvas
GetBaseSizeStep == GetBaseSize /\ UNCHANGED notCanvas
GetCanvasScaleStep == GetCanvasScale /\ UNCHANGED notCanvas
FullscreenStep ==
  /\ Len(fullscreenRequests) < MaxRequests
  /\ Fullscreen("fullscreen")
  /\ UNCHANGED notCanvas
ExitFullscreenStep ==
  /\ Len(fullscreenRequests) < MaxRequests
  /\ ExitFullscreen("exitFullscreen")
  /\ UNCHANGED notCanvas
ToggleFullscreenStep ==
  /\ Len(fullscreenRequests) < MaxRequests
  /\ ToggleFullscreen
  /\ UNCHANGED notCanvas
FullscreenChangeStep ==
  \E granted \in BOOLEAN : FullscreenChange(granted) /\ UNCHANGED notCanvas
CanvasClearScreenStep == CanvasClearScreen /\ UNCHANGED notCanvas

GameStartStep ==
  /\ CanCall
  /\ GameStart
  /\ frameTouched' = TouchedBy(updateSubscribers')
  /\ frameGone' = GoneBy(updateSubscribers')
  /\ UNCHANGED <<inputVars, loopRest, canvasVars, sceneVars, sceneHist,
                 binds, widgets, field, sheet, goneSubs, animations>>

\* The Maps of one or two scenes that addScenes is given.
SceneEntries ==
  { <<e>> : e \in SceneNames \X Scenes } \cup
  { <<e1, e2>> : <<e1, e2>> \in { p \in (SceneNames \X Scenes) \X (SceneNames \X Scenes) :
                                   p[1][1] # p[2][1] } }

AddScenesStep(maps) ==
  \E entries \in maps :
    /\ CanCall
    /\ AddScenes(entries)
    /\ UNCHANGED <<inputVars, loopVars, loopHist, canvasVars, sceneCalls, loadedBefore, sceneError,
                   objectVars>>

AddAnimationStep ==
  \E name \in AnimationNames, animation \in Animations :
    /\ CanCall
    /\ AddAnimation(name, animation)
    /\ UNCHANGED <<inputVars, loopVars, loopHist, canvasVars, sceneVars, sceneCalls,
                   loadedBefore, sceneError, instances, binds, widgets, field, sheet, goneSubs>>

SetSceneStep(names, hooks) ==
  \E name \in names, unload \in hooks, load \in hooks :
    /\ CanCall
    /\ SetScene(name, unload, load)
    /\ UNCHANGED <<inputVars, loopVars, loopHist, canvasVars, objectVars>>

ConstructStep(classes) ==
  \E class \in classes :
    /\ CanCall
    /\ binds < MaxBinds
    /\ Len(updateSubscribers) < MaxSubs
    /\ Construct(class)
    /\ frameTouched' = TouchedBy(updateSubscribers')
    /\ frameGone' = GoneBy(updateSubscribers')
    /\ UNCHANGED <<inputVars, loopRest, canvasVars, sceneVars, sceneHist>>

DestroyStep ==
  \E this \in widgets :
    /\ CanCall
    /\ binds < MaxBinds
    /\ Destroy(this)
    /\ frameTouched' = TouchedBy(updateSubscribers')
    /\ frameGone' = GoneBy(updateSubscribers')
    /\ UNCHANGED <<notFocus, loopRest, canvasVars, sceneVars, sceneHist>>

\* The steps of _loop.
notLoop == <<inputVars, canvasVars, sceneVars, sceneHist, objectVars>>

LoopBeginStep ==
  \E dt \in 1..MaxDt :
    /\ lastTime + dt <= MaxTime
    /\ LoopBegin(lastTime + dt)
    /\ UNCHANGED notLoop
notForEach == <<clickVars, twoPhase, animVars, animCall, canvasVars, sceneVars, sceneHist,
                objectVars>>
ForEachUpdateStep == ForEachUpdate /\ UNCHANGED notForEach
SceneUpdateStep == SceneUpdate /\ UNCHANGED notLoop
ClearScreenStep == ClearScreen /\ UNCHANGED notLoop
ForEachPreRenderStep == ForEachPreRender /\ UNCHANGED notForEach
SceneDrawStep == SceneDraw /\ UNCHANGED notLoop
ForEachPostRenderStep == ForEachPostRender /\ UNCHANGED notForEach
CallbackThrowsStep == CallbackThrows /\ UNCHANGED notLoop
RequestFrameStep == RequestFrame /\ UNCHANGED notLoop

\* The two GameLoop variants given the same timestamps, the same calls and
\* the same callbacks, which throw in both or in none.
notLoops == <<deviceVars, fieldVars, fieldHist, animVars, sheetVars, animCall,
              canvasVars, sceneVars, sceneHist, objectVars>>
VariantsSubscribeStep ==
  \E subscriber \in {Fn("f")} :
    /\ CanCall
    /\ Len(updateSubscribers) < MaxSubs
    /\ SubscribeToUpdate(subscriber)
    /\ TwoPhaseSubscribeToUpdate(subscriber)
    /\ frameTouched' = TouchedBy(updateSubscribers')
    /\ frameGone' = GoneBy(updateSubscribers')
    /\ UNCHANGED <<loopRest, notLoops>>
VariantsUnsubscribeStep ==
  \E subscriber \in {Fn("f")} :
    /\ CanCall
    /\ UnsubscribeFromUpdate(subscriber)
    /\ TwoPhaseUnsubscribeFromUpdate(subscriber)
    /\ frameTouched' = TouchedBy(updateSubscribers')
    /\ frameGone' = GoneBy(updateSubscribers')
    /\ UNCHANGED <<loopRest, notLoops>>
VariantsLoopBeginStep ==
  \E dt \in 1..MaxDt :
    /\ lastTime + dt <= MaxTime
    /\ LoopBegin(lastTime + dt)
    /\ TwoPhaseLoopBegin(lastTime + dt)
    /\ UNCHANGED notLoops
VariantsForEachUpdateStep ==
  /\ ForEachUpdate
  /\ TwoPhaseForEachUpdate
  /\ UNCHANGED <<clickVars, animVars, animCall, canvasVars, sceneVars, sceneHist, objectVars>>
VariantsSceneUpdateStep == SceneUpdate /\ TwoPhaseSceneUpdate /\ UNCHANGED notLoops
VariantsCallbackThrowsStep == CallbackThrows /\ TwoPhaseCallbackThrows /\ UNCHANGED notLoops
VariantsClearScreenStep == ClearScreen /\ TwoPhaseClearScreen /\ UNCHANGED notLoops
VariantsSceneDrawStep == SceneDraw /\ TwoPhaseSceneDraw /\ UNCHANGED notLoops
VariantsRequestFrameStep == RequestFrame /\ TwoPhaseRequestFrame /\ UNCHANGED notLoops

\* The steps of an InputField: the events between two frames, and the
\* frame, in which _update runs before the scene's update reads the flag.
notField == <<deviceVars, twoPhase, animVars, sheetVars, animCall, engineVars>>
\* The two listeners are attached from the constructor to destroy(), and
\* the <input> is in the document, where the user can reach it, as long.
OnEnterStep ==
  \E key \in EventKeys :
    /\ field \in widgets
    /\ Submits(key) => enterCount < MaxEvents
    /\ OnEnter(key)
    /\ enterCount' = IF Submits(key) THEN enterCount + 1 ELSE enterCount
    /\ UNCHANGED <<fieldFrames, notField>>
OnClickStep ==
  \E onInput \in BOOLEAN :
    field \in widgets /\ OnClick(onInput) /\ UNCHANGED <<fieldHist, notField>>
TypeTextStep ==
  \E text \in Texts :
    field \in widgets /\ TypeText(text) /\ UNCHANGED <<fieldHist, notField>>
SetInputValueStep ==
  \E text \in Texts :
    field # NoObject /\ SetInputValue(text) /\ UNCHANGED <<fieldHist, notField>>
InputFieldClearStep ==
  field # NoObject /\ InputFieldClear /\ UNCHANGED <<fieldHist, notField>>
InputFieldUpdateStep == field # NoObject /\ InputFieldUpdateCall /\ UNCHANGED notField

\* The calls on a SpriteSheetAnimation and on the SpriteSheet playing it.
notAnimation == <<deviceVars, twoPhase, fieldVars, fieldHist, engineVars>>
AnimationCall(op, deltaTime) ==
  [op |-> op, deltaTime |-> deltaTime, currentFrame |-> animCurrentFrame,
   timer |-> animTimer, isEnded |-> animIsEnded,
   assigned |-> (animCall.assigned \/ op = "currentFrame")]
AnimationUpdateStep ==
  \E deltaTime \in 1..MaxDt :
    /\ animTimer + deltaTime <= MaxTimer
    /\ AnimationUpdate(deltaTime)
    /\ animCall' = AnimationCall("update", deltaTime)
    /\ UNCHANGED <<sheetVars, notAnimation>>
AnimationResetStep ==
  /\ AnimationReset
  /\ animCall' = AnimationCall("reset", 0)
  /\ UNCHANGED <<sheetVars, notAnimation>>
\* An assignment to currentFrame, of an index of the list or of one beside it.
SetCurrentFrameStep ==
  \E value \in -1..MaxFrames :
    /\ SetCurrentFrame(value)
    /\ animCall' = AnimationCall("currentFrame", 0)
    /\ UNCHANGED <<sheetVars, notAnimation>>
PlayAnimationStep ==
  \E known \in BOOLEAN :
    sheet # NoObject /\ PlayAnimation(known) /\ UNCHANGED <<animVars, animCall, notAnimation>>
SpriteSheetUpdateStep ==
  \E deltaTime \in 1..MaxDt :
    /\ sheet # NoObject
    /\ sheetTimerAnimation + deltaTime <= MaxTimer
    /\ SpriteSheetUpdate(deltaTime)
    /\ UNCHANGED <<animVars, animCall, notAnimation>>

\* The steps of the two-phase _loop, and those the render lists add.
FrameSteps ==
  \/ LoopBeginStep
  \/ ForEachUpdateStep
  \/ SceneUpdateStep
  \/ ClearScreenStep
  \/ SceneDrawStep
  \/ RequestFrameStep
RenderSteps ==
  \/ ForEachPreRenderStep
  \/ ForEachPostRenderStep

EngineInit ==
  /\ GameLoopInit
  /\ TwoPhaseInit
  /\ InputFieldInit
  /\ GameCanvasNew
  /\ SceneManagerInit
  /\ ObjectsInit

(***************************************************************************)
(* Specifications                                                          *)
(***************************************************************************)
AllButAnimation == KeyboardInit /\ MouseInit /\ TouchInit /\ ClickableInit /\ EngineInit
Init == AllButAnimation /\ SpriteSheetAnimationInit(<<0>>, <<1, 1>>, TRUE) /\ SpriteSheetInit

\* The objects a specification leaves alone start in one fixed state.
InitTouch == Init /\ clState = "released"
InitButtons == InitTouch /\ touchScreen
\* Any animation of the bounds, in a sprite sheet.
InitAnimation ==
  /\ AllButAnimation /\ clState = "released" /\ touchScreen
  /\ \E frames \in FrameLists, speed \in Speeds, loop \in BOOLEAN :
       SpriteSheetAnimationInit(frames, speed, loop)
  /\ SpriteSheetInit

NextKeyboard ==
  \/ KeyDownStep
  \/ KeyUpStep
  \/ KeyboardUpdateStep

SpecKeyboard == InitButtons /\ [][NextKeyboard]_vars

NextMouse ==
  \/ MouseDownStep
  \/ MouseUpStep
  \/ MouseMoveStep
  \/ MouseUpdateStep

SpecMouse == InitButtons /\ [][NextMouse]_vars

NextTouch ==
  \/ TouchStartStep(PagePoints, CanvasOffsets)
  \/ TouchMoveStep
  \/ TouchEndStep
  \/ TouchCancelStep
  \/ TouchUpdateStep

SpecTouch == InitTouch /\ [][NextTouch]_vars

\* The touch events on a canvas that the game initializes, with its default
\* size or with its own, in a window of the default size or in a small one,
\* before or between them.
NextTouchPosition ==
  \/ GameCanvasInitStep(OptionSizes, {DefaultCanvasSize, <<6, 4>>})
  \/ TouchStartStep(PagePoints \cup {<<7, 1>>}, CanvasOffsets)
  \/ TouchMoveStep
  \/ TouchEndStep
  \/ TouchCancelStep
  \/ tTimer + MaxDt <= MaxTimer /\ TouchUpdateCall(MaxDt) /\ UNCHANGED notTouch

SpecTouchPosition == InitButtons /\ [][NextTouchPosition]_vars

\* Taps at one point of a touch-capable device whose click delay the game sets.
NextClickDelay ==
  \/ TouchStartStep({<<0, 0>>}, {<<0, 0>>})
  \/ TouchEndStep
  \/ SetClickDelayStep
  \/ TouchUpdateStep

SpecClickDelay == InitButtons /\ [][NextClickDelay]_vars

\* A Clickable polling Mouse and Touch: the devices without their history,
\* the left button only, the canvas unscaled at the origin of the page.  The
\* listeners and the _update of a device run once its singleton is
\* constructed, which the first update of the Clickable does.
NextClickable ==
  \/ "Mouse" \in instances /\ OnMouseDown(Left) /\ UNCHANGED <<mouseHist, notMouse>>
  \/ "Mouse" \in instances /\ OnMouseUp(Left) /\ UNCHANGED <<mouseHist, notMouse>>
  \/ \E page \in PagePoints :
       "Mouse" \in instances /\ OnMouseMove(page, <<0, 0>>) /\ UNCHANGED <<mouseHist, notMouse>>
  \/ "Mouse" \in instances /\ MouseUpdate /\ UNCHANGED <<mouseHist, notMouse>>
  \/ \E page \in PagePoints :
       "Touch" \in instances /\ OnTouchStart(page, <<0, 0>>) /\ UNCHANGED <<touchHist, notTouch>>
  \/ \E page \in PagePoints :
       "Touch" \in instances /\ OnTouchMove(page, <<0, 0>>) /\ UNCHANGED <<touchHist, notTouch>>
  \/ "Touch" \in instances /\ OnTouchEnd /\ UNCHANGED <<touchHist, notTouch>>
  \/ "Touch" \in instances /\ OnTouchCancel /\ UNCHANGED <<touchHist, notTouch>>
  \/ \E deltaTime \in 1..MaxDt :
       /\ "Touch" \in instances
       /\ tTimer + deltaTime <= MaxTimer
       /\ TouchUpdate(deltaTime)
       /\ UNCHANGED <<touchHist, notTouch>>
  \/ ClickableUpdateStep
  \/ DisableStep
  \/ EnableStep

SpecClickable == Init /\ [][NextClickable]_vars

\* Keyboard and Mouse side by side, without the interval history.
NextButtons ==
  \/ \E key \in Keys : OnKeyDown(key) /\ UNCHANGED <<kbdHist, notKeyboard>>
  \/ \E key \in Keys : OnKeyUp(key) /\ UNCHANGED <<kbdHist, notKeyboard>>
  \/ KeyboardUpdate /\ UNCHANGED <<kbdHist, notKeyboard>>
  \/ \E button \in Buttons : OnMouseDown(button) /\ UNCHANGED <<mouseHist, notMouse>>
  \/ \E button \in Buttons : OnMouseUp(button) /\ UNCHANGED <<mouseHist, notMouse>>
  \/ MouseMoveStep
  \/ MouseUpdate /\ UNCHANGED <<mouseHist, notMouse>>

SpecButtons == InitButtons /\ [][NextButtons]_vars

\* The Map {a: A} that the game registers before it selects the scene.
OneScene == { << <<"a", "A">> >> }
TwoScenes == { << <<"a", "A">>, <<"b", "B">> >> }

\* The frame cycle with its render lists, the game calling the engine
\* between and during frames: one update function, one draw function,
\* neither subscribed twice.
NextFrame ==
  \/ FrameSteps
  \/ CallbackThrowsStep
  \/ RenderSteps
  \/ Fn("f") \notin Range(updateSubscribers) /\ SubscribeToUpdateStep({Fn("f")})
  \/ UnsubscribeFromUpdateStep({Fn("f")})
  \/ SubscribeToPreRenderStep(DrawFns)
  \/ UnsubscribeFromPreRenderStep(DrawFns)
  \/ SubscribeToPostRenderStep(DrawFns)
  \/ UnsubscribeFromPostRenderStep(DrawFns)
  \/ GameCanvasInitStep({NoSize}, {DefaultCanvasSize})
  \/ AddScenesStep(OneScene)
  \/ SetSceneStep({"a"}, {Returns})

SpecFrame == InitButtons /\ [][NextFrame]_vars

\* The frame cycle with two draw functions in the render lists and no
\* update subscriber.
NextRender ==
  \/ lastTime + MaxDt <= MaxTime /\ LoopBegin(lastTime + MaxDt) /\ UNCHANGED notLoop
  \/ SceneUpdateStep
  \/ ClearScreenStep
  \/ SceneDrawStep
  \/ RequestFrameStep
  \/ CallbackThrowsStep
  \/ RenderSteps
  \/ SubscribeToPreRenderStep(RenderFns)
  \/ UnsubscribeFromPreRenderStep(RenderFns)
  \/ SubscribeToPostRenderStep(RenderFns)
  \/ UnsubscribeFromPostRenderStep(RenderFns)
  \/ GameCanvasInitStep({NoSize}, {DefaultCanvasSize})
  \/ AddScenesStep(OneScene)
  \/ SetSceneStep({"a"}, {Returns})

SpecRender == InitButtons /\ [][NextRender]_vars

\* The loop with render lists, both empty, beside the loop without them.
NextVariants ==
  \/ VariantsLoopBeginStep
  \/ VariantsForEachUpdateStep
  \/ VariantsSceneUpdateStep
  \/ VariantsClearScreenStep
  \/ VariantsSceneDrawStep
  \/ VariantsRequestFrameStep
  \/ VariantsCallbackThrowsStep
  \/ VariantsSubscribeStep
  \/ VariantsUnsubscribeStep
  \/ GameCanvasInitStep({NoSize}, {DefaultCanvasSize})
  \/ AddScenesStep(TwoScenes)
  \/ SetSceneStep({"a", "b"}, {Returns})

SpecVariants == InitButtons /\ [][NextVariants]_vars

\* An InputField from its construction to its destruction: its events, the
\* calls of the game and the frames.
NextInputField ==
  \/ GameCanvasInitStep({NoSize}, {DefaultCanvasSize})
  \/ ConstructStep({"InputField"})
  \/ DestroyStep
  \/ OnEnterStep
  \/ OnClickStep
  \/ TypeTextStep
  \/ SetInputValueStep
  \/ InputFieldClearStep
  \/ InputFieldUpdateStep

SpecInputField == InitButtons /\ [][NextInputField]_vars

\* A SpriteSheetAnimation updated and reset, and a SpriteSheet playing it.
NextAnimation ==
  \/ ConstructStep({"SpriteSheet"})
  \/ AnimationUpdateStep
  \/ AnimationResetStep
  \/ SetCurrentFrameStep
  \/ PlayAnimationStep
  \/ SpriteSheetUpdateStep

SpecAnimation == InitAnimation /\ [][NextAnimation]_vars

\* Game.start() and the two-phase frame cycle, with one game function and
\* the first press of a key, between two frames.
NextStart ==
  \/ FrameSteps
  \/ CallbackThrowsStep
  \/ "Keyboard" \in instances /\ pc = "idle" /\ kSeen = {} /\ KeyDownStep
  \/ Fn("f") \notin Range(updateSubscribers) /\ SubscribeToUpdateStep({Fn("f")})
  \/ UnsubscribeFromUpdateStep({Fn("f")})
  \/ GameStartStep
  \/ GameCanvasInitStep({NoSize}, {DefaultCanvasSize})
  \/ AddScenesStep(OneScene)
  \/ SetSceneStep({"a"}, {Returns})

SpecStart == InitButtons /\ [][NextStart]_vars

\* The update subscribers of the game and the frame cycle, a frame every
\* tick.
NextSubscribers ==
  \/ lastTime + 1 <= MaxTime /\ LoopBegin(lastTime + 1) /\ UNCHANGED notLoop
  \/ ForEachUpdateStep
  \/ SceneUpdateStep
  \/ ClearScreenStep
  \/ SceneDrawStep
  \/ RequestFrameStep
  \/ CallbackThrowsStep
  \/ SubscribeToUpdateStep(UserFns)
  \/ UnsubscribeFromUpdateStep(UserFns)
  \/ GameCanvasInitStep({NoSize}, {DefaultCanvasSize})

SpecSubscribers == InitButtons /\ [][NextSubscribers]_vars

\* The objects that subscribe themselves, and the two-phase frame cycle.
NextObjects ==
  \/ FrameSteps
  \/ ConstructStep(Classes)
  \/ DestroyStep
  \/ GameCanvasInitStep({NoSize}, {DefaultCanvasSize})

SpecObjects == InitButtons /\ [][NextObjects]_vars

\* The two registries by name: the scenes and the animations of a sprite sheet.
NextRegistries ==
  \/ AddScenesStep(SceneEntries)
  \/ AddAnimationStep

SpecRegistries == InitButtons /\ [][NextRegistries]_vars

\* The GameCanvas alone: the game calling it before and after init.
NextCanvas ==
  \/ GameCanvasInitStep(OptionSizes, WindowSizes)
  \/ ResizeStep
  \/ GetBaseSizeStep
  \/ GetCanvasScaleStep
  \/ GetPositionStep
  \/ FullscreenStep
  \/ ExitFullscreenStep
  \/ ToggleFullscreenStep
  \/ FullscreenChangeStep
  \/ CanvasClearScreenStep

SpecCanvas == InitButtons /\ [][NextCanvas]_vars

\* The scene registry alone.
NextScenes ==
  \/ AddScenesStep(OneScene \cup TwoScenes)
  \/ SetSceneStep(SceneNames, Hooks(SceneNames))

SpecScenes == InitButtons /\ [][NextScenes]_vars


(***************************************************************************)
(* Properties                                                              *)
(***************************************************************************)
Last(seq) == seq[Len(seq)]
\* What the four polls show of a map entry: a missing entry reads as up.
Observed(s) == IF s = Absent THEN "up" ELSE s

\* C1: an identifier of Keyboard or Mouse for which no press or release
\* event has ever arrived polls as up: isUp is true, isDown, isJustDown and
\* isJustUp are false, whatever happened to the other identifiers.
C1_NeverSeenDefaults ==
  /\ \A key \in Keys \ kSeen :
       /\ KeyboardIsUp(key)
       /\ ~KeyboardIsDown(key)
       /\ ~KeyboardIsJustDown(key)
       /\ ~KeyboardIsJustUp(key)
  /\ \A button \in Buttons \ mSeen :
       /\ MouseIsUp(button)
       /\ ~MouseIsDown(button)
       /\ ~MouseIsJustDown(button)
       /\ ~MouseIsJustUp(button)

\* A key and a button are still unseen while another key has been pressed
\* and reconciled and another button is tracked.
C1_Witness ==
  /\ \E key \in Keys \ kSeen : \E other \in kSeen : kState[other] = "down"
  /\ \E button \in Buttons \ mSeen : \E other \in mSeen : mState[other] # Absent

\* C2: Keyboard: when the last event of an interval is a keydown on a key
\* that was up (or never seen), the reconciliation makes isJustDown true;
\* a following reconciliation with no new event for the key makes isDown
\* true and isJustDown false.
C2_JustDownThenDown ==
  \A key \in Keys :
    /\ (kFolded[key] # <<>> /\ Last(kFolded[key]) = "down" /\ ~IncludesDown(kPre[key]))
         => KeyboardIsJustDown(key)
    /\ (kFolded[key] = <<>> /\ kPre[key] = "just_down")
         => (KeyboardIsDown(key) /\ ~KeyboardIsJustDown(key))

\* A key was JustDown in the previous frame, received nothing and is Down.
C2_Witness ==
  \E key \in Keys :
    kFolded[key] = <<>> /\ kPre[key] = "just_down" /\ kState[key] = "down"

\* C3: Mouse: a mousedown on a button that is up, followed by one
\* reconciliation, makes isJustDown and isDown true; a mouseup on a button
\* that is down, followed by one reconciliation, makes isJustUp true.
C3_MouseFoldsEdges ==
  \A button \in Buttons :
    /\ (mFolded[button] = "down" /\ ~IncludesDown(mPre[button]))
         => (MouseIsJustDown(button) /\ MouseIsDown(button))
    /\ (mFolded[button] = "up" /\ IncludesDown(mPre[button]))
         => MouseIsJustUp(button)

\* C4: Keyboard: isJustDown (isJustUp) is never true in two consecutive
\* frames, and it is true only in a frame whose reconciliation started from
\* an up (down) state.
C4_JustOneFrame ==
  \A key \in Keys :
    /\ ~(kPre[key] = "just_down" /\ kState[key] = "just_down")
    /\ ~(kPre[key] = "just_up" /\ kState[key] = "just_up")
    /\ kState[key] = "just_down" => ~IncludesDown(kPre[key])
    /\ kState[key] = "just_up" => IncludesDown(kPre[key])

\* A key is JustUp right after the frame in which it was JustDown.
C4_Witness ==
  \E key \in Keys : kPre[key] = "just_down" /\ kState[key] = "just_up"

\* C5: Keyboard coalescing: after a reconciliation that folded several
\* events of a key, the state of the key depends only on its state before
\* those events and on the last of them; a keydown followed by a keyup on an
\* up key leaves the key Up, not JustDown and not JustUp.
C5_Coalescing ==
  /\ \A k1, k2 \in Keys :
       ( /\ Len(kFolded[k1]) >= 2
         /\ kFolded[k2] # <<>>
         /\ Observed(kPre[k1]) = Observed(kPre[k2])
         /\ Last(kFolded[k1]) = Last(kFolded[k2]) )
       => kState[k1] = kState[k2]
  /\ \A key \in Keys :
       ( /\ Len(kFolded[key]) >= 2
         /\ ~IncludesDown(kPre[key])
         /\ kFolded[key][Len(kFolded[key]) - 1] = "down"
         /\ Last(kFolded[key]) = "up" )
       => kState[key] = "up"

\* One key took keydown then keyup in the interval, another only the keyup,
\* from the same state, and both were reconciled.
C5_Witness ==
  \E k1, k2 \in Keys :
    /\ kFolded[k1] = <<"down", "up">>
    /\ kFolded[k2] = <<"up">>
    /\ kPre[k1] = "up" /\ kPre[k2] = "up"
    /\ kState[k1] = "up"

\* C6: Touch tap: on a touch-capable device, a touchstart followed by a
\* touchend with at most clickDelay accumulated between them makes isClicked
\* true at the reconciliation that immediately follows the touchend.
C6_TapIsClicked ==
  ( /\ touchScreen
    /\ cPhase = "ended" /\ cPure
    /\ WithinClickDelay(cDur)
    /\ cAfter = 1 )
  => tIsClicked

\* C7: Touch tap count: a single tap (touchstart, touchend, at most
\* clickDelay between them, no other touch event) has exactly one
\* reconciliation that leaves isClicked true, however many reconciliations
\* run during and after it.
C7_TapClicksOnce ==
  ( /\ touchScreen
    /\ cPhase = "ended" /\ cPure
    /\ WithinClickDelay(cDur)
    /\ cAfter >= 1 )
  => cClicks = 1

\* C8: Touch hold: a contact that stayed down for more than clickDelay has
\* no reconciliation, from its touchstart on, that leaves isClicked true;
\* isClicked is true after a touchend only for a contact of at most
\* clickDelay.
C8_HoldNeverClicks ==
  /\ (touchScreen /\ cPhase = "ended" /\ ~WithinClickDelay(cDur)) => cClicks = 0
  /\ (touchScreen /\ cPhase = "ended" /\ tIsClicked) => WithinClickDelay(cDur)

\* C9: Clickable priority law: after update on a Clickable that was not
\* Disabled, the state is decided by the three inputs alone: Clicked if
\* clicking and hovering, else Pressed if pressing and hovering, else
\* Hovered if hovering, else Released.
C9_PriorityLaw ==
  (clIn.op = "update" /\ ~clIn.wasDisabled) =>
    /\ (clIn.clicking /\ clIn.hovering) => clState = "clicked"
    /\ (~clIn.clicking /\ clIn.pressing /\ clIn.hovering) => clState = "pressed"
    /\ (~clIn.clicking /\ ~clIn.pressing /\ clIn.hovering) => clState = "hovered"
    /\ ~clIn.hovering => clState = "released"

\* An update saw a click and a press inside the area at once and chose Clicked.
C9_Witness ==
  /\ clIn.op = "update" /\ ~clIn.wasDisabled
  /\ clIn.clicking /\ clIn.pressing /\ clIn.hovering
  /\ clState = "clicked"

\* C10: disable() sets the state to Disabled from any state, and a Disabled
\* Clickable leaves Disabled only by enable() or disable(false): no update,
\* whatever the pointers show, and no pointer event changes it.
C10_DisabledIsSticky ==
  [][ /\ (clIn'.op = "disable" /\ clIn'.arg) => clState' = "disabled"
      /\ (clIn'.op = "enable" /\ ~clIn'.arg) => clState' = "disabled"
      /\ (clState = "disabled" /\ clState' # "disabled") =>
           \/ clIn'.op = "enable" /\ clIn'.arg
           \/ clIn'.op = "disable" /\ ~clIn'.arg ]_vars

\* An update ran on a Disabled Clickable while a click was inside the area,
\* and the Clickable is still Disabled.
C10_Witness ==
  /\ clIn.op = "update" /\ clIn.wasDisabled
  /\ clIn.clicking /\ clIn.hovering
  /\ clState = "disabled"

(***************************************************************************)
(* The frame cycle.                                                        *)
(***************************************************************************)
\* The operations of the calls of a log, and the calls with one operation.
Ops(log) == [i \in 1..Len(log) |-> log[i].op]
Calls(log, op) == SelectSeq(log, LAMBDA call : call.op = op)
\* The phase of a call of _loop: update, clear, draw.
Rank(op) ==
  IF op \in {"update", "sceneUpdate"} THEN 1 ELSE IF op = "clear" THEN 2 ELSE 3

\* C11: frame ordering law: in every frame the calls of the update
\* subscribers and of the scene's update all come before the one canvas
\* clear, which comes before every draw subscriber and the scene's draw; no
\* update call follows the clear, no draw call is made without the clear
\* before it, and when the clear is reached every update subscriber of the
\* frame (and the scene, if there is one) has been called.
C11_FrameOrdering ==
  /\ \A i, j \in 1..Len(frameLog) :
       i < j => Rank(frameLog[i].op) <= Rank(frameLog[j].op)
  /\ Len(Calls(frameLog, "clear")) <= 1
  /\ (\E i \in 1..Len(frameLog) : Rank(frameLog[i].op) = 3)
       => Len(Calls(frameLog, "clear")) = 1
  /\ Len(Calls(frameLog, "clear")) = 1 =>
       /\ frameScene # NoScene => Len(Calls(frameLog, "sceneUpdate")) = 1
       /\ ~frameTouched => Len(Calls(frameLog, "update")) = Len(frameSubs)

\* A frame called an update subscriber, the scene's update, the clear, a
\* pre-render subscriber, the scene's draw and a post-render subscriber.
C11_Witness ==
  Ops(frameLog) = <<"update", "sceneUpdate", "clear", "preRender", "sceneDraw", "postRender">>

\* C16: once started the loop never stops: whenever no _loop call is
\* running exactly one is pending, whatever happened during the frames
\* (a frame before GameCanvas.init, an error in a subscriber or the scene).
C16_LoopNeverStops == pending <= 1 /\ (pc = "idle" => pending = 1)

\* The calls of one function as update subscriber in a log.
UpdatesOf(log, fn) == SelectSeq(log, LAMBDA call : call.op = "update" /\ call.who = fn)

\* C12: after Game.start(), in every frame the reconciliation of each input
\* device runs exactly once and before the scene's update of that frame:
\* in a frame that began with the three devices subscribed no device is
\* reconciled twice, no update subscriber runs after the scene's update,
\* and once the update phase is over each device has been reconciled.
C12_ReconciledOncePerFrame ==
  (pc # "idle" /\ \A device \in Devices : DeviceUpdate(device) \in Range(frameSubs)) =>
    /\ \A device \in Devices : Len(UpdatesOf(frameLog, DeviceUpdate(device))) <= 1
    /\ \A i, j \in 1..Len(frameLog) :
         frameLog[i].op = "sceneUpdate" /\ frameLog[j].op = "update" => j < i
    /\ pc \in {"clear", "preRender", "postRender"} =>
         \A device \in Devices : Len(UpdatesOf(frameLog, DeviceUpdate(device))) = 1

(***************************************************************************)
(* The subscriber list.                                                    *)
(***************************************************************************)
\* The number of entries of a list identical to a function.
Count(list, fn) == Cardinality({i \in 1..Len(list) : list[i] = fn})
\* A list without its i-th entry (1-based).
Without(list, i) == SubSeq(list, 1, i - 1) \o SubSeq(list, i + 1, Len(list))
\* unsubscribeFromUpdate applied n times.
RECURSIVE UnsubscribeTimes(_, _, _)
UnsubscribeTimes(list, fn, n) ==
  IF n = 0 THEN list ELSE UnsubscribeTimes(Unsubscribe(list, fn), fn, n - 1)

\* C13: unsubscribeFromUpdate(f) removes only the first entry identical to
\* f and keeps the order of the others; when f is not in the list it changes
\* nothing, so a repeated unsubscribe is a no-op; a function subscribed k
\* times is called k times in a frame during which the list is left alone,
\* and is still in the list after k - 1 unsubscribes, not after k.
C13_UnsubscribeStep(f) ==
  UnsubscribeFromUpdateStep({f}) =>
    IF Count(updateSubscribers, f) = 0
      THEN updateSubscribers' = updateSubscribers
      ELSE \E i \in 1..Len(updateSubscribers) :
             /\ updateSubscribers[i] = f
             /\ \A j \in 1..(i - 1) : updateSubscribers[j] # f
             /\ updateSubscribers' = Without(updateSubscribers, i)
C13_CalledAsSubscribed ==
  /\ (pc = "clear" /\ ~frameTouched) =>
       \A f \in UserFns : Len(UpdatesOf(frameLog, f)) = Count(frameSubs, f)
  /\ \A f \in UserFns :
       LET k == Count(updateSubscribers, f)
       IN /\ Count(UnsubscribeTimes(updateSubscribers, f, k), f) = 0
          /\ UnsubscribeTimes(updateSubscribers, f, k + 1) = UnsubscribeTimes(updateSubscribers, f, k)
          /\ k > 0 => Count(UnsubscribeTimes(updateSubscribers, f, k - 1), f) = 1
C13_UnsubscribeFirstOnly ==
  [](C13_CalledAsSubscribed) /\ [][\A f \in UserFns : C13_UnsubscribeStep(f)]_vars

\* A frame that began with f, g, f subscribed had its first f unsubscribed
\* by a callback: g and the second f remain, in this order.
C13_Witness ==
  /\ frameSubs = <<Fn("f"), Fn("g"), Fn("f")>>
  /\ updateSubscribers = <<Fn("g"), Fn("f")>>

\* C14: update subscribers are called in registration order, each with the
\* frame's deltaTime: a subscription is entered after all the entries the
\* list holds, no operation changes the relative order of the entries, and
\* in a frame during which the list is left alone the calls made so far are
\* the first entries of the list, in the order of the list, with _deltaTime.
C14_OrderKept ==
  /\ Len(updateSubscribers') > Len(updateSubscribers) =>
       /\ Len(updateSubscribers') = Len(updateSubscribers) + 1
       /\ SubSeq(updateSubscribers', 1, Len(updateSubscribers)) = updateSubscribers
  /\ Len(updateSubscribers') < Len(updateSubscribers) =>
       \E i \in 1..Len(updateSubscribers) : updateSubscribers' = Without(updateSubscribers, i)
  /\ Len(updateSubscribers') = Len(updateSubscribers) => updateSubscribers' = updateSubscribers
C14_CalledInOrder ==
  ~frameTouched =>
    LET calls == Calls(frameLog, "update")
    IN /\ Len(calls) <= Len(frameSubs)
       /\ \A i \in 1..Len(calls) : calls[i] = Invocation("update", frameSubs[i], loopDeltaTime)
C14_RegistrationOrder == [](C14_CalledInOrder) /\ [][C14_OrderKept]_vars

\* The second frame, with deltaTime 1 at time 2, called f then g, subscribed
\* in this order.
C14_Witness ==
  /\ pc = "clear"
  /\ ~frameTouched
  /\ lastTime = 2
  /\ frameSubs = <<Fn("f"), Fn("g")>>
  /\ frameLog = <<Invocation("update", Fn("f"), 1), Invocation("update", Fn("g"), 1)>>

(***************************************************************************)
(* The scene registry.                                                     *)
(***************************************************************************)
\* Every call of `calls`, made in order from the scenes `loaded`, is a load
\* on a scene that is not loaded while no other scene is, or an unload on a
\* loaded scene.
RECURSIVE Alternates(_, _)
Alternates(loaded, calls) ==
  IF calls = <<>> THEN TRUE
  ELSE /\ IF Head(calls).op = "load" THEN loaded = {} ELSE Head(calls).who \in loaded
       /\ Alternates(AfterCalls(loaded, <<Head(calls)>>), Tail(calls))

\* C15: setScene calls unload on the scene that was current, if any, once
\* and before load on the new scene, which is then the current scene; on
\* each scene load and unload alternate, load first, and at most one scene
\* is loaded and not unloaded at any time.
C15_SceneTransition ==
  /\ Cardinality(loadedBefore) <= 1
  /\ Alternates(loadedBefore, sceneCalls)
  /\ IF currentScene = NoScene
       THEN sceneCalls = <<>> /\ Loaded = {}
       ELSE /\ Loaded = {currentScene}
            /\ Last(sceneCalls) = Invocation("load", currentScene, 0)
            /\ IF loadedBefore = {}
                 THEN Len(sceneCalls) = 1
                 ELSE /\ Len(sceneCalls) = 2
                      /\ sceneCalls[1].op = "unload"
                      /\ sceneCalls[1].who \in loadedBefore

\* C17: teardown unsubscribes: after InputField.destroy() or
\* SpriteSheet.cleanBeforeDestroy() the _update the object had subscribed is
\* no longer in the update-subscriber list and is called in no later frame,
\* so the list holds one entry for each object not torn down and creating
\* and destroying objects leaves it the size it had.
C17_TeardownUnsubscribes ==
  /\ \A fn \in goneSubs :
       /\ fn \notin Range(updateSubscribers)
       /\ fn \notin Range(frameSubs) => UpdatesOf(frameLog, fn) = <<>>
  /\ Len(updateSubscribers) = Cardinality(widgets)

(***************************************************************************)
(* Frame stability and the touch stream.                                   *)
(***************************************************************************)
\* What the four polls answer for every identifier.
KeyboardPolls ==
  [key \in Keys |-> <<KeyboardIsDown(key), KeyboardIsUp(key),
                       KeyboardIsJustDown(key), KeyboardIsJustUp(key)>>]
MousePolls ==
  [button \in Buttons |-> <<MouseIsDown(button), MouseIsUp(button),
                            MouseIsJustDown(button), MouseIsJustUp(button)>>]

\* C18: frame stability of Keyboard and Mouse: no press or release handler
\* changes what isDown, isUp, isJustDown or isJustUp answer for any
\* identifier; the answers change only in a reconciliation (_update).
C18_Stable ==
  /\ (\E key \in Keys : OnKeyDown(key) \/ OnKeyUp(key)) => KeyboardPolls' = KeyboardPolls
  /\ (\E button \in Buttons : OnMouseDown(button) \/ OnMouseUp(button)) => MousePolls' = MousePolls
  /\ KeyboardPolls' # KeyboardPolls => KeyboardUpdate
  /\ MousePolls' # MousePolls => MouseUpdate
C18_FrameStable == [][C18_Stable]_vars

\* A key and a button that poll as up have a press waiting for the next
\* reconciliation, the key after it went through a whole press and release.
C18_Witness ==
  /\ kTemp["KeyA"] = "down" /\ kState["KeyA"] = "just_up"
  /\ mTemp[Left] = "down" /\ mState[Left] = "up"

\* C19: touch state polling reflects the touch stream: on a touch-capable
\* device, after the reconciliation that follows a touchstart isStarted is
\* true, after a touchmove isMoved, after a touchcancel isCancelled, after a
\* touchend isEnded, and at most one of the four is true at any time.
C19_StateFollowsStream ==
  touchScreen =>
    /\ tFolded = "started" => TouchIsStarted
    /\ tFolded = "moved" => TouchIsMoved
    /\ tFolded = "cancelled" => TouchIsCancelled
    /\ tFolded = "ended" => TouchIsEnded
    /\ Cardinality({p \in {<<1, TouchIsStarted>>, <<2, TouchIsMoved>>,
                            <<3, TouchIsEnded>>, <<4, TouchIsCancelled>>} : p[2]}) <= 1

\* The baseSize that the last touchstart or touchmove read, on one axis.
Edge(axis) == tBase[axis]

\* C20: touch position clamp: whatever the page coordinates, the canvas
\* position, the scale and the baseSize of the canvas (the default or the
\* size given to init, in a window of any size) at the last touchstart or
\* touchmove, the position lies in [0, baseSize] on both axes, is the
\* coordinate (page - position) / scale when that lies in the range and the
\* nearest edge when it does not; touchend, touchcancel and the
\* reconciliation leave it where that event put it.
C20_PositionClamped ==
  \A axis \in {1, 2} :
    IF tRaw = <<>>
      THEN tPos[axis] = Origin[axis]
      ELSE /\ 0 <= tPos[axis][1] /\ tPos[axis][1] <= Edge(axis) * tPos[axis][2]
           /\ tRaw[axis][1] < 0 => tPos[axis] = Fraction(0, 1)
           /\ tRaw[axis][1] > Edge(axis) * tRaw[axis][2] => tPos[axis] = Fraction(Edge(axis), 1)
           /\ (0 <= tRaw[axis][1] /\ tRaw[axis][1] <= Edge(axis) * tRaw[axis][2]) =>
                tPos[axis] = tRaw[axis]

\* On a canvas initialized with its own size, in a window that scales it, a
\* touch right of the canvas and inside it on the other axis was pinned to
\* the right edge, and the contact has ended since.
C20_Witness ==
  /\ tRaw # <<>>
  /\ tBase = BaseSize
  /\ canvasScale[1] # canvasScale[2]
  /\ tRaw[1][1] > Edge(1) * tRaw[1][2] /\ tPos[1] = Fraction(Edge(1), 1)
  /\ tRaw[2][1] > 0 /\ tRaw[2][1] < Edge(2) * tRaw[2][2] /\ tPos[2] = tRaw[2]
  /\ tNew = "ended"


(***************************************************************************)
(* C21: every GameCanvas operation called before init(), the geometry       *)
(* getters scale, baseSize and position included, ends in the 'not          *)
(* initialized' error, never in a value, and leaves the canvas as it was.   *)
(***************************************************************************)
C21_ThrowsBeforeInit ==
  /\ [](canvasCall.op # "new" /\ ~canvasCall.initialized
          => canvasCall.outcome = "throws")
  /\ [][~isInitialized /\ canvasCall'.op # "init" => canvasState' = canvasState]_vars


(***************************************************************************)
(* C22: registering a scene, or an animation of a sprite sheet, under a     *)
(* name that is already registered throws 'already exists', and the entry  *)
(* registered under that name before is kept, never replaced.              *)
(***************************************************************************)
Duplicates(call, none) ==
  {i \in 1..Len(call.entries) : call.before[call.entries[i][1]] # none}

C22_Rejected ==
  /\ registered.op = "addScenes" /\ Duplicates(registered, NoScene) # {}
       => registered.outcome = "throws"
  /\ registered.op = "addAnimation" /\ Duplicates(registered, NoAnimation) # {}
       => registered.outcome = "throws"

C22_Kept ==
  /\ \A name \in SceneNames :
       scenesContainer[name] # NoScene => scenesContainer'[name] = scenesContainer[name]
  /\ \A name \in AnimationNames :
       animations[name] # NoAnimation => animations'[name] = animations[name]

C22_DuplicateRejected == [](C22_Rejected) /\ [][C22_Kept]_vars

\* addScenes was given a Map whose second name was registered under another
\* scene: it threw, and a sprite sheet holds an animation.
C22_Witness ==
  /\ registered.op = "addScenes"
  /\ registered.outcome = "throws"
  /\ Duplicates(registered, NoScene) = {2}
  /\ registered.before[registered.entries[2][1]] # registered.entries[2][2]
  /\ \E name \in AnimationNames : animations[name] # NoAnimation


(***************************************************************************)
(* C23: Keyboard._update follows the reference table for every key of the   *)
(* raw buffer and every previous state: up-ish and "down" give JustDown,    *)
(* down-ish and "up" give JustUp, anything else gives the raw edge; a key   *)
(* that is not in the raw buffer keeps its state.                           *)
(***************************************************************************)
\* The table: previous state, raw edge, state after the reconciliation.
TransitionTable ==
  { <<"up", "down", "just_down">>, <<"just_up", "down", "just_down">>,
    <<"down", "down", "down">>, <<"just_down", "down", "down">>,
    <<Absent, "down", "down">>,
    <<"down", "up", "just_up">>, <<"just_down", "up", "just_up">>,
    <<"up", "up", "up">>, <<"just_up", "up", "up">>,
    <<Absent, "up", "up">> }

\* The step is a reconciliation: the handlers all record an event.
IsKeyboardUpdate == kEvts' = [key \in Keys |-> <<>>]

C23_FollowsTable ==
  [][IsKeyboardUpdate =>
       \A key \in Keys :
         IF kTemp[key] = Absent
           THEN kState'[key] = kState[key]
           ELSE <<kState[key], kTemp[key], kState'[key]>> \in TransitionTable]_vars

\* A reconciliation has just folded a keyup into a key that was Down, and
\* one into a key that had no state.
C23_Witness ==
  /\ kEvts = [key \in Keys |-> <<>>]
  /\ kPre["KeyA"] = "down" /\ kFolded["KeyA"] = <<"up">> /\ kState["KeyA"] = "just_up"
  /\ kPre["KeyB"] = Absent /\ kFolded["KeyB"] = <<"up">> /\ kState["KeyB"] = "up"


(***************************************************************************)
(* C24: in Keyboard and in Mouse every identifier in the state map holds    *)
(* one of the four KeyState values, exactly one of isUp and isDown is true  *)
(* for every identifier, in the map or not, and no identifier ever leaves   *)
(* the map.                                                                 *)
(***************************************************************************)
C24_OneState ==
  /\ \A key \in Keys :
       /\ kState[key] # Absent => kState[key] \in KeyState
       /\ KeyboardIsUp(key) # KeyboardIsDown(key)
  /\ \A button \in Buttons :
       /\ mState[button] # Absent => mState[button] \in KeyState
       /\ MouseIsUp(button) # MouseIsDown(button)

C24_NeverRemoved ==
  /\ \A key \in Keys : kState[key] # Absent => kState'[key] # Absent
  /\ \A button \in Buttons : mState[button] # Absent => mState'[button] # Absent

C24_ExactlyOneState == [](C24_OneState) /\ [][C24_NeverRemoved]_vars

\* One key is JustDown, the other was never touched, and a button is in
\* the map of Mouse.
C24_Witness ==
  /\ kState["KeyA"] = "just_down" /\ KeyboardIsDown("KeyA") /\ ~KeyboardIsUp("KeyA")
  /\ kState["KeyB"] = Absent /\ KeyboardIsUp("KeyB") /\ ~KeyboardIsDown("KeyB")
  /\ mState[Left] # Absent


(***************************************************************************)
(* C25: with no further event, two reconciliations at most bring every key  *)
(* of the Keyboard state map to Up or Down, and each reconciliation after   *)
(* them leaves the map as it is.                                            *)
(***************************************************************************)
\* No event has arrived since the reconciliation before the last one.
KeyboardQuiet ==
  /\ kEvts = [key \in Keys |-> <<>>]
  /\ kFolded = [key \in Keys |-> <<>>]

C25_Settled ==
  KeyboardQuiet => \A key \in Keys : kState[key] \in {Absent, "up", "down"}

C25_Idempotent == KeyboardQuiet /\ IsKeyboardUpdate => kState' = kState

C25_SteadyState == [](C25_Settled) /\ [][C25_Idempotent]_vars

\* The second of two reconciliations without an event between them has
\* turned JustDown into Down: the first alone was not enough.
C25_Witness ==
  /\ KeyboardQuiet
  /\ kPre["KeyA"] = "just_down"
  /\ kState["KeyA"] = "down"


(***************************************************************************)
(* C26: when two reconciliations in a row both find _tempState Started,     *)
(* the second one resets _clickTimer to 0, so that the timer measures the   *)
(* time since the contact began.                                            *)
(***************************************************************************)
\* The step is a reconciliation: the handlers all record an event.
IsTouchUpdate == touchScreen /\ tNew' = Absent

C26_TimerReset ==
  [][IsTouchUpdate /\ tRead = "started" /\ tTemp = "started" => tTimer' = 0]_vars


(***************************************************************************)
(* C27: after a touchend and with no further event, isEnded is reported for *)
(* a bounded number of frames: the reconciliation that finds the Ended it   *)
(* has already published, and no new edge, clears _state and _tempState;    *)
(* from then on nothing is reported until the next touch event.             *)
(***************************************************************************)
TouchReports == TouchIsStarted \/ TouchIsMoved \/ TouchIsEnded \/ TouchIsCancelled

C27_Clears ==
  IsTouchUpdate /\ tNew = Absent /\ tTemp = "ended" /\ TouchIsEnded
    => tState' = Absent /\ tTemp' = Absent

C27_StaysClear ==
  IsTouchUpdate /\ tNew = Absent /\ ~TouchReports => ~TouchReports'

C27_Settles == [][C27_Clears /\ C27_StaysClear]_vars


(***************************************************************************)
(* C28: exactly one of Touch.isDown and Touch.isUp is true in every state;  *)
(* the event handlers set them when the event arrives (isDown by touchstart *)
(* and touchmove, isUp by touchend and touchcancel) and no reconciliation   *)
(* changes either.                                                          *)
(***************************************************************************)
C28_Complementary ==
  /\ tIsDown # tIsUp
  /\ tNew \in {"started", "moved"} => tIsDown
  /\ tNew \in {"ended", "cancelled"} => tIsUp

C28_KeptByUpdate == IsTouchUpdate => tIsDown' = tIsDown /\ tIsUp' = tIsUp

C28_FlagsFollowEvents == [](C28_Complementary) /\ [][C28_KeptByUpdate]_vars

\* The contact has been reconciled while the finger is down, and again
\* after it was cancelled: the flags are those the events set.
C28_Witness ==
  /\ touchScreen
  /\ tNew = Absent
  /\ tFolded = "cancelled"
  /\ cDur > 0
  /\ tIsUp /\ ~tIsDown


(***************************************************************************)
(* C29: in every frame, once Touch is reconciled, isEnded and isDown are    *)
(* not both true: a contact whose last event is touchstart or touchmove is  *)
(* not reported as ended.                                                   *)
(***************************************************************************)
C29_NotEndedWhileDown ==
  touchScreen /\ tNew = Absent => ~(TouchIsEnded /\ tIsDown)


(***************************************************************************)
(* C30: enable(x) does what disable(not x) does, for both values of x;      *)
(* disable(false) and enable() set the state to Released from every state,  *)
(* Hovered, Pressed and Clicked included, so that nothing of an interaction *)
(* in progress survives a disable/enable cycle.                             *)
(***************************************************************************)
C30_EnableDisable ==
  [][ /\ clIn'.op = "disable" =>
           clState' = IF clIn'.arg THEN "disabled" ELSE "released"
      /\ clIn'.op = "enable" =>
           clState' = IF clIn'.arg THEN "released" ELSE "disabled" ]_vars

\* enable() was called on a Clickable that was Pressed, and left it Released.
C30_Witness ==
  /\ clIn.op = "enable" /\ clIn.arg
  /\ clIn.replaced = "pressed"
  /\ clState = "released"


(***************************************************************************)
(* C31: an update makes a non-disabled Clickable Clicked (or Pressed) only  *)
(* if the device that produced the click (or press) has its own pointer     *)
(* inside the area: the mouse for a left release or press, the touch        *)
(* position for a touch click or touch-down; and an update made with the    *)
(* mouse outside the area and no touch contact down leaves it Released.     *)
(***************************************************************************)
IsClickableUpdate == clIn'.op = "update" /\ clIn' # clIn /\ ~clIn'.wasDisabled
MouseInside == IsContainsPoint(Area, mPos)
TouchInside == IsContainsPoint(Area, tPos)
C31_OwnPointer ==
  [][ IsClickableUpdate =>
        /\ clState' = "clicked" =>
             \/ MouseIsJustUp(Left) /\ MouseInside
             \/ tIsClicked /\ TouchInside
        /\ clState' = "pressed" =>
             \/ MouseIsDown(Left) /\ MouseInside
             \/ tIsDown /\ TouchInside
        /\ ~MouseInside /\ ~tIsDown => clState' = "released" ]_vars


(***************************************************************************)
(* C32: the draw phase of the extended loop: in every frame, after the      *)
(* canvas clear, the pre-render subscribers are called in registration      *)
(* order, then the draw of the frame's scene if there is one, then the      *)
(* post-render subscribers in registration order; the subscribers of both   *)
(* lists are called when there is no scene as well.  A list is compared     *)
(* with the calls of a forEach during which it was left alone.              *)
(***************************************************************************)
DrawRank(op) == IF op = "preRender" THEN 1 ELSE IF op = "sceneDraw" THEN 2 ELSE 3
Draws(log) == SelectSeq(log, LAMBDA call : Rank(call.op) = 3)
\* The calls made by a forEach over `list`, as far as it went.
CalledInOrder(calls, op, list, done) ==
  /\ Len(calls) <= Len(list)
  /\ \A i \in 1..Len(calls) : calls[i] = Invocation(op, list[i], 0)
  /\ done => Len(calls) = Len(list)
C32_Sequence ==
  LET draws == Draws(frameLog)
      sceneDraws == Calls(frameLog, "sceneDraw")
  IN /\ \A i, j \in 1..Len(draws) :
          i < j => DrawRank(draws[i].op) <= DrawRank(draws[j].op)
     /\ draws # <<>> => frameLog[Len(frameLog) - Len(draws)].op = "clear"
     /\ Len(sceneDraws) <= 1
     /\ \A i \in 1..Len(sceneDraws) : sceneDraws[i].who = Fn(frameScene)
     /\ (pc = "preRender" /\ ~drawTouched) =>
          CalledInOrder(Calls(frameLog, "preRender"), "preRender", drawSubs,
                        forEachK >= forEachLen)
     /\ pc = "postRender" =>
          /\ Len(sceneDraws) = IF frameScene = NoScene THEN 0 ELSE 1
          /\ ~drawTouched =>
               CalledInOrder(Calls(frameLog, "postRender"), "postRender", drawSubs,
                             forEachK >= forEachLen)
\* subscribeToPreRender and subscribeToPostRender enter a function after
\* the entries of the list; no operation changes the order of the entries.
C32_RenderOrderKept ==
  \A pair \in {<<preRenderSubscribers, preRenderSubscribers'>>,
               <<postRenderSubscribers, postRenderSubscribers'>>} :
    LET old == pair[1]
        new == pair[2]
    IN /\ Len(new) > Len(old) => Len(new) = Len(old) + 1 /\ SubSeq(new, 1, Len(old)) = old
       /\ Len(new) < Len(old) => \E i \in 1..Len(old) : new = Without(old, i)
       /\ Len(new) = Len(old) => new = old
C32_DrawPhase == [](C32_Sequence) /\ [][C32_RenderOrderKept]_vars

\* A frame with no scene called q then p before the scene's place and p
\* then q after it, as they were subscribed, and is about to end.
C32_Witness ==
  /\ pc = "postRender" /\ forEachK >= forEachLen /\ ~drawTouched
  /\ frameScene = NoScene
  /\ preRenderSubscribers = <<Fn("q"), Fn("p")>>
  /\ Ops(frameLog) = <<"clear", "preRender", "preRender", "postRender", "postRender">>
  /\ Calls(frameLog, "preRender")[1].who = Fn("q")
  /\ Calls(frameLog, "postRender")[1].who = Fn("p")


(***************************************************************************)
(* C33: with no pre-render and no post-render subscriber the two GameLoop   *)
(* variants are equivalent: given the same timestamps, the same subscribe   *)
(* and unsubscribe calls and the same scene changes, they make the same     *)
(* calls of update subscribers, scene.update, clearScreen and scene.draw,   *)
(* in the same order and with the same deltaTime, stand at the same place   *)
(* of _loop and have the same number of frames requested.                   *)
(***************************************************************************)
\* The place of the loop with render lists, both empty, named as in the
\* loop without them.
TwoPhasePc(place) ==
  IF place = "preRender" THEN "draw" ELSE IF place = "postRender" THEN "request" ELSE place
C33_Equivalent ==
  (preRenderSubscribers = <<>> /\ postRenderSubscribers = <<>>) =>
    /\ twoPhase.log = frameLog
    /\ twoPhase.deltaTime = loopDeltaTime
    /\ twoPhase.lastTime = lastTime
    /\ twoPhase.updateSubscribers = updateSubscribers
    /\ twoPhase.pending = pending
    /\ twoPhase.pc = TwoPhasePc(pc)
    /\ pc # "idle" => twoPhase.currentScene = frameScene
    /\ pc = "update" =>
         twoPhase.forEachK = forEachK /\ twoPhase.forEachLen = forEachLen

\* Both loops are about to request the next frame after calling f, the
\* scene's update, the clear and the draw of scene A, which a setScene made
\* during the frame has replaced by B.
C33_Witness ==
  /\ pc = "postRender" /\ twoPhase.pc = "request"
  /\ loopDeltaTime = 2
  /\ currentScene = "B"
  /\ twoPhase.log = <<Invocation("update", Fn("f"), 2), Invocation("sceneUpdate", Fn("A"), 2),
                      Invocation("clear", Fn("canvas"), 0), Invocation("sceneDraw", Fn("A"), 0)>>


(***************************************************************************)
(* C34: the subscriber list changed during a frame: every update            *)
(* subscriber that is in the list when a frame starts and is not itself     *)
(* unsubscribed during that frame is called exactly once in that frame,     *)
(* also when a subscriber calls unsubscribeFromUpdate (on itself or on      *)
(* another one) or subscribeToUpdate while the update phase is running.     *)
(***************************************************************************)
C34_CalledOnce ==
  \A fn \in Range(frameSubs) \ frameGone :
    Count(frameSubs, fn) = 1 =>
      /\ Len(UpdatesOf(frameLog, fn)) <= 1
      /\ pc = "clear" => Len(UpdatesOf(frameLog, fn)) = 1


(***************************************************************************)
(* C35: scene lifecycle safety: _loop calls update and draw only on a       *)
(* scene that has been loaded and not unloaded since, also when setScene    *)
(* is called from inside the scene's update or an update subscriber: no     *)
(* scene receives update or draw after its unload with no load between.     *)
(***************************************************************************)
IsSceneCall ==
  /\ Len(frameLog') = Len(frameLog) + 1
  /\ Last(frameLog').op \in {"sceneUpdate", "sceneDraw"}
C35_OnlyLoadedScenes ==
  [][IsSceneCall => \E scene \in Loaded : Last(frameLog').who = Fn(scene)]_vars


(***************************************************************************)
(* C36: within one frame the scene's update and the scene's draw go to the  *)
(* same scene, the one that was current when the frame began; a setScene    *)
(* made during the frame changes the scene called from the next frame on;   *)
(* when no scene is current as the frame begins neither call is made,       *)
(* while the update subscribers and the canvas clear still run.             *)
(***************************************************************************)
SceneCalls(log) == SelectSeq(log, LAMBDA call : call.op \in {"sceneUpdate", "sceneDraw"})
C36_FrameScene ==
  LET expected == IF frameScene = NoScene THEN 0 ELSE 1
  IN /\ \A i \in 1..Len(SceneCalls(frameLog)) :
          frameScene # NoScene /\ SceneCalls(frameLog)[i].who = Fn(frameScene)
     /\ pc \in {"clear", "preRender", "postRender"} =>
          Len(Calls(frameLog, "sceneUpdate")) = expected
     /\ pc = "postRender" => Len(Calls(frameLog, "sceneDraw")) = expected
     /\ (frameScene = NoScene /\ pc \in {"preRender", "postRender"}) =>
          /\ Len(Calls(frameLog, "clear")) = 1
          /\ ~frameTouched => Len(Calls(frameLog, "update")) = Len(frameSubs)
C36_ReadAtFrameStart ==
  /\ (pc = "idle" /\ pc' # "idle") => frameScene' = currentScene
  /\ (pc # "idle" /\ pc' # "idle") => frameScene' = frameScene
C36_SameSceneInFrame == [](C36_FrameScene) /\ [][C36_ReadAtFrameStart]_vars

\* A frame that began with scene A has called A.update, then setScene made
\* B the current scene, and the draw of the frame went to A.
C36_Witness ==
  /\ pc = "postRender"
  /\ frameScene = "A" /\ currentScene = "B"
  /\ sceneCalls = <<Invocation("unload", "A", 0), Invocation("load", "B", 0)>>
  /\ frameLog = <<Invocation("sceneUpdate", Fn("A"), 1), Invocation("clear", Fn("canvas"), 0),
                  Invocation("sceneDraw", Fn("A"), 0)>>

\* A frame that began with no scene called f and cleared the canvas, and
\* made no scene call although setScene made A current meanwhile.
C36_WitnessNoScene ==
  /\ pc = "postRender"
  /\ frameScene = NoScene /\ currentScene = "A"
  /\ Ops(frameLog) = <<"update", "clear">>


(***************************************************************************)
(* C37: setScene with a name that is not registered raises the error        *)
(* 'does not exist' and changes nothing: the current scene stays the same,  *)
(* unload is not called on it and load is called on no scene.  (With a      *)
(* registered name it does not raise that error, and the scene becomes      *)
(* current when its load is the last call made and returns.)                *)
(***************************************************************************)
C37_SetSceneOf(name) ==
  SetSceneStep({name}, Hooks(SceneNames)) =>
    IF scenesContainer[name] = NoScene
      THEN /\ sceneError' = DoesNotExist
           /\ UNCHANGED <<currentScene, scenesContainer, sceneCalls, loadedBefore>>
           /\ Loaded' = Loaded
      ELSE /\ sceneError' # DoesNotExist
           /\ (sceneError' = NoError /\ sceneCalls'[Len(sceneCalls')].who = scenesContainer[name])
                 => currentScene' = scenesContainer[name]
C37_UnknownSceneRejected ==
  [][ /\ \A name \in SceneNames : C37_SetSceneOf(name)
      /\ sceneError' = DoesNotExist /\ sceneError # DoesNotExist =>
           UNCHANGED <<currentScene, scenesContainer, sceneCalls, loadedBefore>> ]_vars

\* With A current (after B) and the name "c" not registered, the last
\* setScene raised the error: A is still current and the last calls made
\* on scenes are still B.unload() and A.load().
C37_Witness ==
  /\ sceneError = DoesNotExist
  /\ scenesContainer["c"] = NoScene
  /\ currentScene = "A"
  /\ sceneCalls = <<Invocation("unload", "B", 0), Invocation("load", "A", 0)>>


(***************************************************************************)
(* C38: the submission pulse of an InputField: after an Enter key event on  *)
(* the focused, non-empty field the scene's update reads                    *)
(* isSubmittedByEnterKey as true in exactly one frame, the next one, and    *)
(* as false from the following frame on when no further Enter arrives; it   *)
(* never reads it as true in two consecutive frames.                        *)
(***************************************************************************)
C38_PulseAfterEnter ==
  \A n \in 1..Len(fieldFrames) : fieldFrames[n].seen <=> fieldFrames[n].enters > 0
C38_NeverTwoFrames ==
  \A n \in 1..(Len(fieldFrames) - 1) : ~(fieldFrames[n].seen /\ fieldFrames[n + 1].seen)
C38_SubmissionPulse == C38_PulseAfterEnter /\ C38_NeverTwoFrames


(***************************************************************************)
(* C39: the frame index of a SpriteSheetAnimation with a non-empty frame    *)
(* list: after any sequence of update(dt) and reset() calls                 *)
(* 0 <= currentFrame < frames.length; a looping animation wraps to frame 0  *)
(* and never sets isEnded; a non-looping animation sets isEnded exactly     *)
(* when it would advance past the last frame, then stays on the last frame  *)
(* with isEnded true under all further updates until reset(), which         *)
(* restores frame 0, timer 0 and isEnded false.  (The SpriteSheet that      *)
(* keeps its own index for the animation it plays stays in range too.)      *)
(***************************************************************************)
LastFrame == Len(animFrames) - 1
\* The calls made so far are update and reset only.
OnlyUpdateAndReset == ~animCall.assigned
C39_InRange ==
  /\ (OnlyUpdateAndReset /\ animFrames # <<>>) => animCurrentFrame \in 0..LastFrame
  /\ animLoop => ~animIsEnded
  /\ (OnlyUpdateAndReset /\ animIsEnded) => animCurrentFrame = LastFrame
  /\ (sheetPlaying /\ animFrames # <<>>) =>
       /\ sheetCurrentFrame \in 0..LastFrame
       /\ animLoop => ~sheetIsAnimationEnded
       /\ sheetIsAnimationEnded => sheetCurrentFrame = LastFrame
\* What the last call did, from the state it found.
C39_LastCall ==
  LET due == Elapsed(animCall.timer + animCall.deltaTime, animSpeed)
      atLast == animCall.currentFrame = LastFrame
  IN /\ animCall.op = "reset" =>
          animCurrentFrame = 0 /\ animTimer = 0 /\ ~animIsEnded
     /\ (OnlyUpdateAndReset /\ animCall.op = "update") =>
          /\ animCurrentFrame =
               IF ~due THEN animCall.currentFrame
               ELSE IF ~atLast THEN animCall.currentFrame + 1
               ELSE IF animLoop THEN 0 ELSE LastFrame
          /\ ~animCall.isEnded => (animIsEnded <=> (~animLoop /\ due /\ atLast))
          /\ animCall.isEnded => animIsEnded /\ animCurrentFrame = LastFrame
C39_FrameIndex == C39_InRange /\ C39_LastCall

\* A non-looping animation of three frames that had ended on its last
\* frame was updated once more: it is still on frame 2 and ended.
C39_Witness ==
  /\ OnlyUpdateAndReset
  /\ Len(animFrames) = 3 /\ ~animLoop
  /\ animCall.op = "update" /\ animCall.isEnded
  /\ animCurrentFrame = 2 /\ animIsEnded
\* A looping animation of three frames wrapped from frame 2 to frame 0.
C39_WitnessLoop ==
  /\ OnlyUpdateAndReset
  /\ Len(animFrames) = 3 /\ animLoop
  /\ animCall.op = "update" /\ animCall.currentFrame = 2
  /\ animCurrentFrame = 0 /\ ~animIsEnded

=============================================================================
